---- MODULE Spec2Model ----
(***************************************************************************)
(* A model of the EPSS score cache (whitfieldsdad/epss): the snapshot      *)
(* cache kept on disk by epss/client.py and epss/epss.py, the thread pools *)
(* that fill it, and the diff of two snapshots.                            *)
(*                                                                         *)
(* Dates are day numbers 1..MaxDate.  A cache file is "absent", "partial" *)
(* (created or truncated by a writer that has not finished) or "full".     *)
(* The score source publishes one immutable table per date of `published`. *)
(***************************************************************************)
EXTENDS Integers, Sequences, FiniteSets, TLC

\* ------------------------------------------------------------------ bounds
MaxDate == 2          \* the latest publication date (get_max_date's answer)
MaxCve == 2           \* the CVE ids a table may hold, in their sort order

Dates == 1..MaxDate
\* Two calls into the library by two threads of the host program sharing one
\* cache directory; each starts at any moment, so the two run concurrently or
\* one after the other.  The first may be any operation, the second is a
\* get_scores_by_date or a clear.
Callers == {1, 2}
Maintainers == {1}

\* constants.py: MIN_DATE = V3_RELEASE_DATE, as a day number
MIN_DATE == 1

VARIABLES
    published,   \* the dates the score source has a snapshot for
    snap,        \* snap[d]: the snapshot file of date d
    clog,        \* clog[d]: the changelog file of date d (changelogs-by-date)
    op,          \* op[c]: the operation caller c runs ("idle" before any)
    args,        \* args[c]: [lo, hi, flag] of that operation
    pc,          \* pc[c]: where caller c stands in it
    out,         \* out[c]: "none", "returned", or the exception raised
    res,         \* res[c]: what the caller's read of a file returned
    cursor,      \* cursor[c]: next date the submit loop examines
    task,        \* task[c][d]: the download of date d started by caller c
    collected,   \* collected[c]: futures whose result() the caller has taken
    sawPresent,  \* history: dates c found present when it examined the cache
    fetched,     \* history: dates a task of c has requested from the source
    deleted,     \* history: a clear(delete_downloads=True) has run
    dfA,         \* the table passed as `a` to get_diff / get_changed_scores
    dfB,         \* the table passed as `b`
    diff,        \* what get_diff(a, b) gave: [error, rows]
    changed,     \* what get_changed_scores(a, b) gave: [error, rows]
    world,       \* the CVEs whose score moves from each day to the next
    hsnap,       \* the days whose snapshot file is in the cache
    hclog,       \* hclog[d]: the changelog file of day d: [present, rows]
    call,        \* the changelog call at work: [name, lo, hi, po, query]
    hpc,         \* where that call stands
    ptask,       \* ptask[d]: the pair task whose second date is d
    pres,        \* pres[d]: the table that pair task computed or read
    hout,        \* what the call gave so far: [error, rows]
    clog0,       \* history: the changelog cache when the call started
    earlier,     \* history: some call ran before this one
    qdf,         \* the table handed to the query filters
    query,       \* the Query handed to them
    filtered,    \* what epss.filter_dataframe_with_query gave: [error, rows]
    scores,      \* what PolarsClient.filter_scores gave: [error, rows]
    wdir,        \* the output directory on disk: [exists, files]
    wargs,       \* write_partitioned_dataframe_to_dir's arguments
    wpc,         \* where that call stands
    wtasks,      \* the partitions submitted to its pool and not yet written
    werr,        \* the exception it raised, or "none"
    wdir0,       \* history: the output directory when the call started
    rbounds,     \* the [min_date, max_date] a caller supplies (Null: omitted)
    rrange,      \* what BaseClient.get_date_range gave: [error, lo, hi]
    rdates,      \* what BaseClient.iter_dates then yields: [error, dates]
    rhist,       \* the range Client.get_historical_diff_dataframe works on
    fpath,       \* the file read: [name, date, columns, rows]
    fdf,         \* what epss.read_dataframe(path) gave: [error, rows]
    fdf2,        \* what client.read_dataframe(path) gave: [error, rows]
    vflags,      \* <<include_v1_scores, include_v2_scores, include_v3_scores>>
    vlatest,     \* the date the score source names as its current one
    vmin,        \* what get_min_date gave: [error, date]
    vmax,        \* what get_max_date gave: [error, date]
    vrange,      \* what client.get_date_range(verify_tls) gave
    sfiles,      \* sfiles[d]: the rows of the cached snapshot file of day d
    sargs,       \* get_scores' arguments: [lo, hi, drop_unchanged_scores]
    sout,        \* what PolarsClient.get_scores gave: [error, rows]
    sday,        \* what PolarsClient.get_scores_by_date(lo) gave
    dargs,       \* a download: [fn, date, query, response, rows]
    dfile,       \* the snapshot file at the path of that date
    dout,        \* how download_scores_by_date ended
    cdisk,       \* the disk Client.clear works on: [workdir, dirs, outside]
    cargs,       \* clear's argument: [delete_downloads]
    cpc,         \* how many calls of clear have returned
    cdisk0       \* history: the disk when the call at work started

cacheVars == <<published, snap, clog, op, args, pc, out, res, cursor, task,
               collected, sawPresent, fetched, deleted>>
dataVars == <<dfA, dfB, diff, changed>>
histVars == <<world, hsnap, hclog, call, hpc, ptask, pres, hout, clog0,
              earlier>>
queryVars == <<qdf, query, filtered, scores>>
partVars == <<wdir, wargs, wpc, wtasks, werr, wdir0>>
rangeVars == <<rbounds, rrange, rdates, rhist>>
fileVars == <<fpath, fdf, fdf2>>
verVars == <<vflags, vlatest, vmin, vmax, vrange>>
scoreVars == <<sfiles, sargs, sout, sday>>
downloadVars == <<dargs, dfile, dout>>
clearVars == <<cdisk, cargs, cpc, cdisk0>>
clientVars == <<verVars, scoreVars, downloadVars, clearVars>>
fnVars == <<queryVars, partVars, rangeVars, fileVars, clientVars>>
vars == <<cacheVars, dataVars, histVars, fnVars>>

\* ------------------------------------------------------------ the source
\* requests.get + raise_for_status + pl.read_csv for a date: the outcomes.
\* A date never published answers 404; a published one answers with its
\* table, or the request fails: a 5xx status (HTTPError), or a transport
\* failure or an unparsable body, which both surface as an exception that is
\* no HTTPError and are one outcome here ("ConnectionError").
FetchOutcomes(d) ==
    IF d \in published
    THEN {"ok", "HTTPError5xx", "ConnectionError"}
    ELSE {"HTTPError404"}

\* requests.exceptions.HTTPError is what raise_for_status raises, for a 4xx
\* and for a 5xx status alike.
IsHTTPError(e) == e \in {"HTTPError404", "HTTPError5xx"}

Exceptions == {"HTTPError404", "HTTPError5xx", "ConnectionError",
               "TypeError", "AssertionError",
               "FileNotFoundError"}

\* ------------------------------------------------------------ the cache
\* os.path.exists(path): a file being written exists already.
Exists(d) == snap[d] # "absent"

\* a task between the two halves of util.write_dataframe on date d, its
\* file still linked at the cache path
Writing(c, d) == task[c][d] = "writing"

OtherWriter(c, d) == \E c2 \in Callers : c2 # c /\ Writing(c2, d)

TaskDone(t) == t \in {"ok"} \cup Exceptions
TaskIdle(t) == t = "none" \/ TaskDone(t)

\* ------------------------------------------------------- date resolution
\* BaseClient.get_date_range: an omitted bound (0) defaults to the allowed
\* bound, a bound beyond the allowed side is pulled back to it.
GetDateRange(lo, hi) ==
    LET min_allowed == MIN_DATE
        max_allowed == MaxDate
        min0 == IF lo # 0 THEN lo ELSE min_allowed
        max0 == IF hi # 0 THEN hi ELSE max_allowed
    IN  <<IF min0 < min_allowed THEN min_allowed ELSE min0,
          IF max0 > max_allowed THEN max_allowed ELSE max0>>

\* util.iter_dates_in_range: range(delta.days + 1), empty when inverted
IterDatesInRange(lo, hi) == {d \in Dates : lo <= d /\ d <= hi}

PoolOps == {"download_scores", "download_scores_over_time",
            "download_scores_over_time_fn"}

\* epss.py: min_date = util.parse_date(min_date or self.min_date), likewise
\* max_date; no clamping
DefaultDateRange(lo, hi) ==
    <<IF lo # 0 THEN lo ELSE MIN_DATE, IF hi # 0 THEN hi ELSE MaxDate>>

\* the range an operation resolves its date arguments to
ResolvedRange(name, lo, hi) ==
    IF name = "download_scores" THEN GetDateRange(lo, hi)
    ELSE DefaultDateRange(lo, hi)

\* the dates an operation of caller c ranges over
RangeOf(c) ==
    LET r == ResolvedRange(op[c], args[c].lo, args[c].hi)
    IN  IterDatesInRange(r[1], r[2])

\* ------------------------------------------------------------ operations
Idle(c) == pc[c] = "idle"

Begin(c, name, lo, hi, flag, at, first) ==
    /\ Idle(c)
    /\ op' = [op EXCEPT ![c] = name]
    /\ args' = [args EXCEPT ![c] = [lo |-> lo, hi |-> hi, flag |-> flag]]
    /\ pc' = [pc EXCEPT ![c] = at]
    /\ out' = [out EXCEPT ![c] = "none"]
    /\ res' = [res EXCEPT ![c] = "none"]
    /\ cursor' = [cursor EXCEPT ![c] = first]
    /\ task' = [task EXCEPT ![c] = [d \in Dates |-> "none"]]
    /\ collected' = [collected EXCEPT ![c] = {}]
    /\ sawPresent' = [sawPresent EXCEPT ![c] = {}]
    /\ fetched' = [fetched EXCEPT ![c] = {}]
    /\ UNCHANGED <<published, snap, clog, deleted>>

Finish(c, how) ==
    /\ pc' = [pc EXCEPT ![c] = "done"]
    /\ out' = [out EXCEPT ![c] = how]

\* --- BaseClient.download_scores_by_date / epss.download_scores_by_date ---
\* The first step of a download task.  BaseClient's method returns at once
\* when the file exists; the function of epss.py has no such check; the
\* function download_scores_over_time of epss.py calls it with a keyword
\* (cve_ids) it does not take.
\* a task that writes without having fetched
WriteUnfetched(c, d) == "write"

TaskFirst(c, d) ==
    CASE op[c] \in {"download_scores", "get_scores_by_date"} ->
             IF Exists(d) THEN "ok" ELSE "fetch"
      [] op[c] = "download_scores_over_time" -> "fetch"
      [] OTHER -> "TypeError"

DownloadOps == PoolOps \cup {"get_scores_by_date"}

TaskStart(c, d) ==
    /\ op[c] \in DownloadOps
    /\ task[c][d] = "pending"
    /\ task' = [task EXCEPT ![c][d] = TaskFirst(c, d)]
    /\ UNCHANGED <<published, snap, op, args, pc, out, res, cursor, collected,
                   sawPresent, fetched, deleted, clog>>

\* requests.get(url); response.raise_for_status(); pl.read_csv(...)
TaskFetch(c, d) ==
    /\ task[c][d] = "fetch"
    /\ \E o \in FetchOutcomes(d) :
           task' = [task EXCEPT ![c][d] = IF o = "ok" THEN "write" ELSE o]
    /\ fetched' = [fetched EXCEPT ![c] = @ \cup {d}]
    /\ UNCHANGED <<published, snap, op, args, pc, out, res, cursor, collected,
                   sawPresent, deleted, clog>>

\* util.write_dataframe: df.write_parquet(path) creates or truncates the file
\* at the cache path itself ...
TaskWriteBegin(c, d) ==
    /\ task[c][d] = "write"
    /\ task' = [task EXCEPT ![c][d] = "writing"]
    /\ snap' = [snap EXCEPT ![d] = "partial"]
    /\ UNCHANGED <<published, op, args, pc, out, res, cursor, collected,
                   sawPresent, fetched, deleted, clog>>

\* ... and fills it.  The file is whole once no writer is left in it; a writer
\* whose file was unlinked meanwhile ("orphan") finishes without effect.
WrittenState(c, d) == IF OtherWriter(c, d) THEN "partial" ELSE "full"

TaskWriteEnd(c, d) ==
    /\ task[c][d] \in {"writing", "orphan"}
    /\ task' = [task EXCEPT ![c][d] = "ok"]
    /\ snap' = IF Writing(c, d)
               THEN [snap EXCEPT ![d] = WrittenState(c, d)]
               ELSE snap
    /\ UNCHANGED <<published, op, args, pc, out, res, cursor, collected,
                   sawPresent, fetched, deleted, clog>>

\* --- PolarsClient.get_scores_by_date -------------------------------------
StartGetScoresByDate(c, d) ==
    Begin(c, "get_scores_by_date", d, d, FALSE, "exists", d)

\* if not os.path.exists(path): self.download_scores_by_date(...)
GsdExists(c) ==
    /\ op[c] = "get_scores_by_date" /\ pc[c] = "exists"
    /\ IF Exists(args[c].lo)
       THEN /\ pc' = [pc EXCEPT ![c] = "read"]
            /\ sawPresent' = [sawPresent EXCEPT ![c] = {args[c].lo}]
            /\ UNCHANGED task
       ELSE /\ pc' = [pc EXCEPT ![c] = "call"]
            /\ task' = [task EXCEPT ![c][args[c].lo] = "pending"]
            /\ UNCHANGED sawPresent
    /\ UNCHANGED <<published, snap, op, args, out, res, cursor, collected,
                   fetched, deleted, clog>>

\* the call returns, or its exception passes through the caller
GsdCallReturn(c) ==
    /\ op[c] = "get_scores_by_date" /\ pc[c] = "call"
    /\ TaskDone(task[c][args[c].lo])
    /\ IF task[c][args[c].lo] = "ok"
       THEN pc' = [pc EXCEPT ![c] = "assert"] /\ UNCHANGED out
       ELSE Finish(c, task[c][args[c].lo])
    /\ UNCHANGED <<published, snap, op, args, res, cursor, task, collected,
                   sawPresent, fetched, deleted, clog>>

\* assert os.path.exists(path), "Scores unexpectedly not downloaded"
GsdAssert(c) ==
    /\ op[c] = "get_scores_by_date" /\ pc[c] = "assert"
    /\ IF Exists(args[c].lo)
       THEN pc' = [pc EXCEPT ![c] = "read"] /\ UNCHANGED out
       ELSE Finish(c, "AssertionError")
    /\ UNCHANGED <<published, snap, op, args, res, cursor, task, collected,
                   sawPresent, fetched, deleted, clog>>

\* read_dataframe(path): the caller gets what the file holds at that moment
ReadSnapshot(c) ==
    /\ op[c] \in {"get_scores_by_date", "get_score_dataframe"}
    /\ pc[c] = "read"
    /\ IF Exists(args[c].lo)
       THEN Finish(c, "returned") /\ res' = [res EXCEPT ![c] = snap[args[c].lo]]
       ELSE Finish(c, "FileNotFoundError") /\ UNCHANGED res
    /\ UNCHANGED <<published, snap, op, args, cursor, task, collected,
                   sawPresent, fetched, deleted, clog>>

\* --- Client.get_score_dataframe ------------------------------------------
StartGetScoreDataframe(c, d) ==
    Begin(c, "get_score_dataframe", d, d, FALSE, "exists", d)

\* if not os.path.exists(path): self.download_scores_by_date(date=date)
\* Client.download_scores_by_date(self, date, path, cve_ids=None) requires
\* `path`: the call raises TypeError before anything is fetched.
GsdfExists(c) ==
    /\ op[c] = "get_score_dataframe" /\ pc[c] = "exists"
    /\ IF Exists(args[c].lo)
       THEN /\ pc' = [pc EXCEPT ![c] = "read"]
            /\ sawPresent' = [sawPresent EXCEPT ![c] = {args[c].lo}]
            /\ UNCHANGED out
       ELSE Finish(c, "TypeError") /\ UNCHANGED sawPresent
    /\ UNCHANGED <<published, snap, op, args, res, cursor, task, collected,
                   fetched, deleted, clog>>

\* --- the pooled downloads -------------------------------------------------
\* BaseClient.download_scores, Client.download_scores_over_time and the
\* function download_scores_over_time of epss.py share one shape: inside
\* `with ThreadPoolExecutor() as executor`, a loop over the dates that submits
\* a task per date it does not skip, then a loop over as_completed(futures).
StartPool(c, name, lo, hi, overwrite) ==
    LET r == ResolvedRange(name, lo, hi)
    IN  c \in Maintainers /\ Begin(c, name, lo, hi, overwrite,
              IF r[1] <= r[2] THEN "submit" ELSE "collect", r[1])

StartDownloadScores(c, lo, hi) ==
    StartPool(c, "download_scores", lo, hi, FALSE)

StartDownloadScoresOverTime(c, lo, hi, overwrite) ==
    StartPool(c, "download_scores_over_time", lo, hi, overwrite)

StartDownloadScoresOverTimeFn(c, lo, hi) ==
    StartPool(c, "download_scores_over_time_fn", lo, hi, FALSE)

\* the skip test of the submit loop:
\*   client.py:  if not os.path.exists(path): submit
\*   epss.py Client:  if os.path.exists(path) and not overwrite: continue
\*   epss.py function:  if os.path.exists(path): continue
SkipDate(c, d) ==
    IF op[c] = "download_scores_over_time"
    THEN Exists(d) /\ ~args[c].flag
    ELSE Exists(d)

\* executor.submit(...): a task of BaseClient.download_scores begins with the
\* exists test of BaseClient.download_scores_by_date (TaskStart); a task of
\* the loops of epss.py reads nothing of the cache before its request, so it
\* stands at its first step from the moment it is submitted.
SubmittedTask(c, d) ==
    IF op[c] = "download_scores" THEN "pending" ELSE TaskFirst(c, d)

Submit(c) ==
    LET d == cursor[c]
        last == ResolvedRange(op[c], args[c].lo, args[c].hi)[2]
    IN  /\ op[c] \in PoolOps /\ pc[c] = "submit"
        /\ IF SkipDate(c, d)
           THEN UNCHANGED task
           ELSE task' = [task EXCEPT ![c][d] = SubmittedTask(c, d)]
        /\ sawPresent' = [sawPresent EXCEPT ![c] =
                              IF Exists(d) THEN @ \cup {d} ELSE @]
        /\ cursor' = [cursor EXCEPT ![c] = d + 1]
        /\ pc' = [pc EXCEPT ![c] = IF d = last THEN "collect" ELSE "submit"]
        /\ UNCHANGED <<published, snap, op, args, out, res, collected,
                       fetched, deleted, clog>>

\* which exceptions of future.result() the collecting loop swallows:
\* client.py catches requests.exceptions.HTTPError and logs it; the loops of
\* epss.py catch nothing.
Absorbs(name, e) ==
    IF name = "download_scores" THEN IsHTTPError(e) ELSE FALSE

Submitted(c) == {d \in Dates : task[c][d] # "none"}

\* the operations that end with a loop over as_completed inside a with block
Pooled(c) == op[c] \in PoolOps \/ op[c] = "iter_score_diff_dataframes"

\* for future in as_completed(futures): future.result()
Collect(c, d) ==
    /\ Pooled(c) /\ pc[c] = "collect"
    /\ d \in Submitted(c) \ collected[c]
    /\ TaskDone(task[c][d])
    /\ collected' = [collected EXCEPT ![c] = @ \cup {d}]
    /\ IF task[c][d] = "ok" \/ Absorbs(op[c], task[c][d])
       THEN UNCHANGED <<pc, out>>
       ELSE /\ pc' = [pc EXCEPT ![c] = "shutdown"]
            /\ out' = [out EXCEPT ![c] = task[c][d]]
    /\ UNCHANGED <<published, snap, op, args, res, cursor, task, sawPresent,
                   fetched, deleted, clog>>

\* the loop ends (or `if futures:` is false): control reaches the end of the
\* with block
CollectEnd(c) ==
    /\ Pooled(c) /\ pc[c] = "collect"
    /\ Submitted(c) = collected[c]
    /\ pc' = [pc EXCEPT ![c] = "shutdown"]
    /\ out' = [out EXCEPT ![c] = "returned"]
    /\ UNCHANGED <<published, snap, op, args, res, cursor, task, collected,
                   sawPresent, fetched, deleted, clog>>

\* ThreadPoolExecutor.__exit__ is shutdown(wait=True): it joins the workers,
\* whether the block ended normally or by an exception.
\* (a shutdown that does not wait, as shutdown(wait=False) would)
PoolDrainedNoWait(c) == TRUE

PoolDrained(c) == \A d \in Dates : TaskIdle(task[c][d])

Shutdown(c) ==
    /\ Pooled(c) /\ pc[c] = "shutdown"
    /\ PoolDrained(c)
    /\ pc' = [pc EXCEPT ![c] = "done"]
    /\ UNCHANGED <<published, snap, op, args, out, res, cursor, task,
                   collected, sawPresent, fetched, deleted, clog>>

\* ---------------------------------------------------------- the changelog
\* --- Client.get_score_diff_dataframe ---------------------------------------
\* One task per pair of dates, filed under the pair's second date b.  Called
\* on its own (the CLI's `diff`) the first date is the caller's; inside
\* iter_score_diff_dataframes the pairs are util.iter_pairwise of the range.
ClogExists(d) == clog[d] # "absent"

ChangelogOps == {"iter_score_diff_dataframes", "get_score_diff_dataframe"}

FirstOf(c, b) ==
    IF op[c] = "get_score_diff_dataframe" THEN args[c].lo ELSE b - 1

\* what a read by one of c's tasks adds to what c has seen
Seen(c, file) ==
    IF file = "partial" \/ res[c] = "partial" THEN "partial" ELSE "full"

\* if os.path.exists(path): df = self.read_dataframe(path=path, query=query)
DiffStart(c, b) ==
    /\ op[c] \in ChangelogOps
    /\ task[c][b] = "pending"
    /\ task' = [task EXCEPT ![c][b] =
                   IF ClogExists(b) THEN "readclog" ELSE "snapA"]
    /\ UNCHANGED <<published, snap, clog, op, args, pc, out, res, cursor,
                   collected, sawPresent, fetched, deleted>>

DiffReadChangelog(c, b) ==
    /\ task[c][b] = "readclog"
    /\ IF ClogExists(b)
       THEN /\ task' = [task EXCEPT ![c][b] = "ok"]
            /\ res' = [res EXCEPT ![c] = Seen(c, clog[b])]
       ELSE /\ task' = [task EXCEPT ![c][b] = "FileNotFoundError"]
            /\ UNCHANGED res
    /\ UNCHANGED <<published, snap, clog, op, args, pc, out, cursor,
                   collected, sawPresent, fetched, deleted>>

\* a = self.get_score_dataframe(date=first_date, query=query), then the same
\* for second_date: Client.get_score_dataframe, whose download call raises
\* TypeError when the snapshot file is absent
DiffSnapshotExists(c, b) ==
    /\ task[c][b] \in {"snapA", "snapB"}
    /\ LET d == IF task[c][b] = "snapA" THEN FirstOf(c, b) ELSE b
       IN  task' = [task EXCEPT ![c][b] =
                       IF ~Exists(d) THEN "TypeError"
                       ELSE IF task[c][b] = "snapA" THEN "readA" ELSE "readB"]
    /\ UNCHANGED <<published, snap, clog, op, args, pc, out, res, cursor,
                   collected, sawPresent, fetched, deleted>>

DiffSnapshotRead(c, b) ==
    /\ task[c][b] \in {"readA", "readB"}
    /\ LET d == IF task[c][b] = "readA" THEN FirstOf(c, b) ELSE b
       IN  IF Exists(d)
           THEN /\ task' = [task EXCEPT ![c][b] =
                               IF task[c][b] = "readA" THEN "snapB"
                               ELSE "diff"]
                /\ res' = [res EXCEPT ![c] = Seen(c, snap[d])]
           ELSE /\ task' = [task EXCEPT ![c][b] = "FileNotFoundError"]
                /\ UNCHANGED res
    /\ UNCHANGED <<published, snap, clog, op, args, pc, out, cursor,
                   collected, sawPresent, fetched, deleted>>

\* df = get_diff(a, b); util.write_dataframe(df=df, path=path): the changelog
\* file is created at its path, then filled
DiffWriteBegin(c, b) ==
    /\ task[c][b] = "diff"
    /\ task' = [task EXCEPT ![c][b] = "clogwriting"]
    /\ clog' = [clog EXCEPT ![b] = "partial"]
    /\ UNCHANGED <<published, snap, op, args, pc, out, res, cursor,
                   collected, sawPresent, fetched, deleted>>

DiffWriteEnd(c, b) ==
    /\ task[c][b] = "clogwriting"
    /\ task' = [task EXCEPT ![c][b] = "ok"]
    /\ clog' = [clog EXCEPT ![b] =
                   IF \E c2 \in Callers : c2 # c /\ task[c2][b] = "clogwriting"
                   THEN "partial" ELSE "full"]
    /\ UNCHANGED <<published, snap, op, args, pc, out, res, cursor,
                   collected, sawPresent, fetched, deleted>>

\* the CLI's two-date diff: one call of get_score_diff_dataframe, run by the
\* caller itself
StartDiff(c, a, b) ==
    /\ c \in Maintainers
    /\ Begin(c, "get_score_diff_dataframe", a, b, FALSE, "seq", b)

\* --- Client.iter_score_diff_dataframes, consumed to its end ----------------
\* flag is preserve_order.  Sequential: the pairs one after the other in the
\* caller's thread.  Otherwise: every pair submitted to a ThreadPoolExecutor,
\* then as_completed.
StartChangelog(c, lo, hi, preserve_order) ==
    LET r == DefaultDateRange(lo, hi)
    IN  /\ c \in Maintainers
        /\ Begin(c, "iter_score_diff_dataframes", lo, hi, preserve_order,
                 IF r[1] < r[2]
                 THEN (IF preserve_order THEN "seq" ELSE "submit")
                 ELSE "collect",
                 r[1] + 1)

LastPair(c) ==
    IF op[c] = "get_score_diff_dataframe" THEN args[c].hi
    ELSE DefaultDateRange(args[c].lo, args[c].hi)[2]

\* the caller runs the pair at its cursor, and moves on when it is done
SeqCall(c) ==
    /\ op[c] \in ChangelogOps /\ pc[c] = "seq"
    /\ task[c][cursor[c]] = "none"
    /\ task' = [task EXCEPT ![c][cursor[c]] = "pending"]
    /\ UNCHANGED <<published, snap, clog, op, args, pc, out, res, cursor,
                   collected, sawPresent, fetched, deleted>>

SeqReturn(c) ==
    LET b == cursor[c]
    IN  /\ op[c] \in ChangelogOps /\ pc[c] = "seq"
        /\ TaskDone(task[c][b])
        /\ collected' = [collected EXCEPT ![c] = @ \cup {b}]
        /\ IF task[c][b] # "ok" THEN Finish(c, task[c][b]) /\ UNCHANGED cursor
           ELSE IF b = LastPair(c)
                THEN Finish(c, "returned") /\ UNCHANGED cursor
                ELSE /\ cursor' = [cursor EXCEPT ![c] = b + 1]
                     /\ UNCHANGED <<pc, out>>
        /\ UNCHANGED <<published, snap, clog, op, args, res, task,
                       sawPresent, fetched, deleted>>

\* future = executor.submit(self.get_score_diff_dataframe, a, b, query=query)
SubmitPair(c) ==
    LET b == cursor[c]
    IN  /\ op[c] = "iter_score_diff_dataframes" /\ pc[c] = "submit"
        /\ task' = [task EXCEPT ![c][b] = "pending"]
        /\ cursor' = [cursor EXCEPT ![c] = b + 1]
        /\ pc' = [pc EXCEPT ![c] =
                     IF b = LastPair(c) THEN "collect" ELSE "submit"]
        /\ UNCHANGED <<published, snap, clog, op, args, out, res, collected,
                       sawPresent, fetched, deleted>>

\* --- Client.clear ----------------------------------------------------------
\* shutil.rmtree of the changelog directories and, with delete_downloads, of
\* raw-scores-by-date.  A writer inside an unlinked file keeps writing to it.
Clear(c, delete_downloads) ==
    /\ Idle(c)
    /\ op' = [op EXCEPT ![c] = "clear"]
    /\ args' = [args EXCEPT ![c] = [lo |-> 0, hi |-> 0,
                                    flag |-> delete_downloads]]
    /\ pc' = [pc EXCEPT ![c] = "done"]
    /\ out' = [out EXCEPT ![c] = "returned"]
    /\ res' = [res EXCEPT ![c] = "none"]
    /\ cursor' = [cursor EXCEPT ![c] = 0]
    /\ collected' = [collected EXCEPT ![c] = {}]
    /\ sawPresent' = [sawPresent EXCEPT ![c] = {}]
    /\ IF delete_downloads
       THEN /\ snap' = [d \in Dates |-> "absent"]
            /\ deleted' = TRUE
            /\ task' = [c2 \in Callers |-> [d \in Dates |->
                          IF c2 = c THEN "none"
                          ELSE IF task[c2][d] \in {"writing", "clogwriting"}
                               THEN "orphan"
                          ELSE task[c2][d]]]
       ELSE /\ task' = [c2 \in Callers |-> [d \in Dates |->
                          IF c2 = c THEN "none"
                          ELSE IF task[c2][d] = "clogwriting" THEN "orphan"
                          ELSE task[c2][d]]]
            /\ UNCHANGED <<snap, deleted>>
    /\ clog' = [d \in Dates |-> "absent"]
    /\ fetched' = [fetched EXCEPT ![c] = {}]
    /\ UNCHANGED published

\* --------------------------------------------------------------- tables
\* A table is a sequence of rows [cve, date, epss, percentile].  epss and
\* percentile are floats in [0, 1], counted here in millionths; a percentage
\* change is counted in units of 10^-5 per cent.  A nullable or non-finite
\* float is [kind, v] with kind in "num", "null", "inf", "-inf", "NaN".
Cves == 1..MaxCve
Scale == 10 ^ 6

\* epss.py:636: util.rejig_dataframe_precision(df=df, n=5)
Precision == 5
Ulp == Scale \div (10 ^ Precision)

Null == [kind |-> "null", v |-> 0]
Num(x) == [kind |-> "num", v |-> x]
Abs(x) == IF x < 0 THEN 0 - x ELSE x
Sign(x) == IF x < 0 THEN 0 - 1 ELSE 1

\* the cell left as it is (what the diff would hold without round)
NoRound(x) == x

\* pl.col(c).round(5) on a float counted in millionths (half away from zero)
Round(x) == Sign(x) * (((Abs(x) + Ulp \div 2) \div Ulp) * Ulp)

\* util.rejig_dataframe_precision, on one float cell
rejig_dataframe_precision(x) ==
    IF x.kind = "num" THEN Num(Round(x.v)) ELSE x

\* (the subtraction taken the other way round)
MinusReversed(x, y) ==
    IF x.kind = "null" \/ y.kind = "null" THEN Null ELSE Num(y.v - x.v)

\* pl.col(x) - pl.col(y): null if either side is null
Minus(x, y) ==
    IF x.kind = "null" \/ y.kind = "null" THEN Null ELSE Num(x.v - y.v)

\* num / den to `digits` decimals, rounded half away from zero, by long
\* division (q and r are the quotient and the remainder so far)
RECURSIVE LongDiv(_, _, _, _)
LongDiv(q, r, den, digits) ==
    IF digits = 0
    THEN IF 2 * r >= den THEN q + 1 ELSE q
    ELSE LongDiv(q * 10 + ((r * 10) \div den), (r * 10) % den, den, digits - 1)

\* (pl.col(change) / pl.col(old)) * 100, then round(5): IEEE division, so a
\* zero divisor gives inf, -inf or NaN
PctChange(change, old) ==
    IF change.kind = "null" \/ old.kind = "null" THEN Null
    ELSE IF old.v = 0
         THEN IF change.v = 0 THEN [kind |-> "NaN", v |-> 0]
              ELSE IF change.v > 0 THEN [kind |-> "inf", v |-> 0]
              ELSE [kind |-> "-inf", v |-> 0]
         ELSE Num(Sign(change.v)
                  * LongDiv(Abs(change.v) \div old.v, Abs(change.v) % old.v,
                            old.v, Precision + 2))

\* df.sort(by=['date', 'cve'])
RowLE(r, s) == r.date < s.date \/ (r.date = s.date /\ r.cve <= s.cve)

RECURSIVE Insert(_, _)
Insert(sorted, r) ==
    IF sorted = <<>> THEN <<r>>
    ELSE IF RowLE(sorted[1], r)
         THEN <<sorted[1]>> \o Insert(Tail(sorted), r)
         ELSE <<r>> \o sorted

\* (the table left in the order its rows came in)
NoSort(df) == df

RECURSIVE SortRows(_)
SortRows(df) ==
    IF df = <<>> THEN <<>>
    ELSE Insert(SortRows(SubSeq(df, 1, Len(df) - 1)), df[Len(df)])

\* pl.col(...).shift().over('cve'): the index of the row before row i in the
\* group of its cve, 0 if it is the first of its group
Shift(df, i) ==
    LET before == {j \in 1..(i - 1) : df[j].cve = df[i].cve}
    IN  IF before = {} THEN 0
        ELSE CHOOSE j \in before : \A k \in before : k <= j

\* epss.get_diff
get_diff(a, b) ==
    LET df == SortRows(a \o b)
        total_before == Len(a)
        WithOld(i) ==
            LET j == Shift(df, i)
            IN  [cve |-> df[i].cve, date |-> df[i].date,
                 epss |-> Num(df[i].epss),
                 percentile |-> Num(df[i].percentile),
                 old_date |-> IF j = 0 THEN Null ELSE Num(df[j].date),
                 old_epss |-> IF j = 0 THEN Null ELSE Num(df[j].epss),
                 old_percentile |->
                     IF j = 0 THEN Null ELSE Num(df[j].percentile)]
        WithChange(r) ==
            [cve |-> r.cve, date |-> r.date, epss |-> r.epss,
             percentile |-> r.percentile, old_date |-> r.old_date,
             old_epss |-> r.old_epss, old_percentile |-> r.old_percentile,
             epss_change |-> Minus(r.epss, r.old_epss),
             percentile_change |-> Minus(r.percentile, r.old_percentile)]
        WithPct(r) ==
            [cve |-> r.cve, date |-> r.date, epss |-> r.epss,
             percentile |-> r.percentile, old_date |-> r.old_date,
             old_epss |-> r.old_epss, old_percentile |-> r.old_percentile,
             epss_change |-> r.epss_change,
             epss_change_pct |-> PctChange(r.epss_change, r.old_epss),
             percentile_change |-> r.percentile_change,
             percentile_change_pct |->
                 PctChange(r.percentile_change, r.old_percentile)]
        Rejig(r) ==
            [cve |-> r.cve, date |-> r.date,
             epss |-> rejig_dataframe_precision(r.epss),
             percentile |-> rejig_dataframe_precision(r.percentile),
             old_date |-> r.old_date,
             old_epss |-> rejig_dataframe_precision(r.old_epss),
             old_percentile |-> rejig_dataframe_precision(r.old_percentile),
             epss_change |-> rejig_dataframe_precision(r.epss_change),
             epss_change_pct |-> r.epss_change_pct,
             percentile_change |->
                 rejig_dataframe_precision(r.percentile_change),
             percentile_change_pct |-> r.percentile_change_pct]
        Keep(r) == r.old_epss.kind # "null" /\ r.epss_change.v # 0
        kept == SelectSeq([i \in 1..Len(df) |->
                              Rejig(WithPct(WithChange(WithOld(i))))], Keep)
    IN  IF total_before = 0
        THEN [error |-> "ZeroDivisionError", rows |-> <<>>]
        ELSE [error |-> "none", rows |-> kept]

\* df.sort(by=DEFAULT_SORTING_KEY): by (date, cve), ascending
DateCveLE(r1, r2) ==
    r1.date < r2.date \/ (r1.date = r2.date /\ r1.cve <= r2.cve)

RECURSIVE InsertByDateAndCve(_, _)
InsertByDateAndCve(r, df) ==
    IF df = <<>> THEN <<r>>
    ELSE IF DateCveLE(r, Head(df)) /\ ~DateCveLE(Head(df), r)
    THEN <<r>> \o df
    ELSE <<Head(df)>> \o InsertByDateAndCve(r, Tail(df))

RECURSIVE SortByDateAndCve(_)
SortByDateAndCve(df) ==
    IF df = <<>> THEN <<>>
    ELSE InsertByDateAndCve(df[Len(df)], SortByDateAndCve(SubSeq(df, 1, Len(df) - 1)))

\* client.get_changed_scores
get_changed_scores(a, b) ==
    LET df == SortRows(a \o b)
        WithPrev(i) ==
            LET j == Shift(df, i)
            IN  [row |-> df[i],
                 epss_change |-> IF j = 0 THEN Null
                                 ELSE Num(df[i].epss - df[j].epss)]
        Keep(r) == r.epss_change.kind # "null" /\ r.epss_change.v # 0
        kept == SelectSeq([i \in 1..Len(df) |-> WithPrev(i)], Keep)
    IN  [error |-> "none", rows |-> [i \in 1..Len(kept) |-> kept[i].row]]

\* ------------------------------------------------------------- behaviour
Ranges == Dates \X Dates

\* No function is being applied on its own.
NoQueryCall ==
    /\ qdf = <<>>
    /\ query = <<>>
    /\ filtered = <<>>
    /\ scores = <<>>

NoPartitionCall ==
    /\ wdir = <<>>
    /\ wargs = <<>>
    /\ wpc = "idle"
    /\ wtasks = {}
    /\ werr = "none"
    /\ wdir0 = <<>>

NoRangeCall ==
    /\ rbounds = <<>>
    /\ rrange = <<>>
    /\ rdates = <<>>
    /\ rhist = <<>>

NoFileRead ==
    /\ fpath = <<>>
    /\ fdf = <<>>
    /\ fdf2 = <<>>

NoVersionCall ==
    /\ vflags = <<>>
    /\ vlatest = 0
    /\ vmin = <<>>
    /\ vmax = <<>>
    /\ vrange = <<>>

NoScoresCall ==
    /\ sfiles = <<>>
    /\ sargs = <<>>
    /\ sout = <<>>
    /\ sday = <<>>

NoDownloadCall ==
    /\ dargs = <<>>
    /\ dfile = <<>>
    /\ dout = <<>>

NoClearCall ==
    /\ cdisk = <<>>
    /\ cargs = <<>>
    /\ cpc = 0
    /\ cdisk0 = <<>>

NoClientCall ==
    NoVersionCall /\ NoScoresCall /\ NoDownloadCall /\ NoClearCall

NoCalls ==
    /\ NoQueryCall
    /\ NoPartitionCall
    /\ NoRangeCall
    /\ NoFileRead
    /\ NoClientCall

\* No table is being compared while the cache is at work.
NoTables ==
    /\ dfA = <<>>
    /\ dfB = <<>>
    /\ diff = [error |-> "pending", rows |-> <<>>]
    /\ changed = [error |-> "pending", rows |-> <<>>]
    /\ NoCalls

\* No changelog call is at work.
NoHistory ==
    /\ world = {}
    /\ hsnap = {}
    /\ hclog = <<>>
    /\ call = <<>>
    /\ hpc = "idle"
    /\ ptask = <<>>
    /\ pres = <<>>
    /\ hout = <<>>
    /\ clog0 = <<>>
    /\ earlier = FALSE

\* No caller is at work on the snapshot cache.
IdleCache ==
    /\ published = {}
    /\ snap = [d \in Dates |-> "absent"]
    /\ clog = [d \in Dates |-> "absent"]
    /\ op = [c \in Callers |-> "idle"]
    /\ args = [c \in Callers |-> [lo |-> 0, hi |-> 0, flag |-> FALSE]]
    /\ pc = [c \in Callers |-> "idle"]
    /\ out = [c \in Callers |-> "none"]
    /\ res = [c \in Callers |-> "none"]
    /\ cursor = [c \in Callers |-> 0]
    /\ task = [c \in Callers |-> [d \in Dates |-> "none"]]
    /\ collected = [c \in Callers |-> {}]
    /\ sawPresent = [c \in Callers |-> {}]
    /\ fetched = [c \in Callers |-> {}]
    /\ deleted = FALSE

Init ==
    /\ NoTables
    /\ NoHistory
    /\ published \in SUBSET Dates
    /\ snap \in [Dates -> {"absent", "full"}]
    /\ \A d \in Dates : snap[d] = "full" => d \in published
    /\ clog = [d \in Dates |-> "absent"]
    /\ op = [c \in Callers |-> "idle"]
    /\ args = [c \in Callers |-> [lo |-> 0, hi |-> 0, flag |-> FALSE]]
    /\ pc = [c \in Callers |-> "idle"]
    /\ out = [c \in Callers |-> "none"]
    /\ res = [c \in Callers |-> "none"]
    /\ cursor = [c \in Callers |-> 0]
    /\ task = [c \in Callers |-> [d \in Dates |-> "none"]]
    /\ collected = [c \in Callers |-> {}]
    /\ sawPresent = [c \in Callers |-> {}]
    /\ fetched = [c \in Callers |-> {}]
    /\ deleted = FALSE

Next ==
    /\ UNCHANGED <<dataVars, histVars, fnVars>>
    /\ \E c \in Callers :
        \/ \E d \in Dates : StartGetScoresByDate(c, d)
        \/ \E d \in Dates : c \in Maintainers /\ StartGetScoreDataframe(c, d)
        \/ \E r \in Ranges : StartDownloadScores(c, r[1], r[2])
        \/ \E r \in Ranges, ow \in BOOLEAN :
               StartDownloadScoresOverTime(c, r[1], r[2], ow)
        \/ \E r \in Ranges : StartDownloadScoresOverTimeFn(c, r[1], r[2])
        \/ \E dd \in BOOLEAN : Clear(c, dd)
        \/ GsdExists(c)
        \/ GsdCallReturn(c)
        \/ GsdAssert(c)
        \/ ReadSnapshot(c)
        \/ GsdfExists(c)
        \/ Submit(c)
        \/ \E d \in Dates : Collect(c, d)
        \/ CollectEnd(c)
        \/ Shutdown(c)
        \/ \E d \in Dates : TaskStart(c, d)
        \/ \E d \in Dates : TaskFetch(c, d)
        \/ \E d \in Dates : TaskWriteBegin(c, d)
        \/ \E d \in Dates : TaskWriteEnd(c, d)

Spec == Init /\ [][Next]_vars

\* The changelog builder at work: the first call builds a changelog (or one
\* diff), the second is a single-date request or a clear, over a cache that
\* may already hold snapshots and changelogs of published dates.
InitChangelog ==
    /\ NoTables
    /\ NoHistory
    /\ published \in SUBSET Dates
    /\ snap \in [Dates -> {"absent", "full"}]
    /\ clog \in [Dates -> {"absent", "full"}]
    /\ \A d \in Dates : snap[d] = "full" => d \in published
    /\ \A d \in Dates : clog[d] = "full" => d \in published
    /\ op = [c \in Callers |-> "idle"]
    /\ args = [c \in Callers |-> [lo |-> 0, hi |-> 0, flag |-> FALSE]]
    /\ pc = [c \in Callers |-> "idle"]
    /\ out = [c \in Callers |-> "none"]
    /\ res = [c \in Callers |-> "none"]
    /\ cursor = [c \in Callers |-> 0]
    /\ task = [c \in Callers |-> [d \in Dates |-> "none"]]
    /\ collected = [c \in Callers |-> {}]
    /\ sawPresent = [c \in Callers |-> {}]
    /\ fetched = [c \in Callers |-> {}]
    /\ deleted = FALSE

NextChangelog ==
    /\ UNCHANGED <<dataVars, histVars, fnVars>>
    /\ \E c \in Callers :
        \/ \E r \in Ranges, po \in BOOLEAN : StartChangelog(c, r[1], r[2], po)
        \/ \E r \in Ranges : StartDiff(c, r[1], r[2])
        \/ \E d \in Dates : c \notin Maintainers /\ StartGetScoresByDate(c, d)
        \/ \E dd \in BOOLEAN : c \notin Maintainers /\ Clear(c, dd)
        \/ SeqCall(c)
        \/ SeqReturn(c)
        \/ SubmitPair(c)
        \/ \E d \in Dates : Collect(c, d)
        \/ CollectEnd(c)
        \/ Shutdown(c)
        \/ \E d \in Dates : DiffStart(c, d)
        \/ \E d \in Dates : DiffReadChangelog(c, d)
        \/ \E d \in Dates : DiffSnapshotExists(c, d)
        \/ \E d \in Dates : DiffSnapshotRead(c, d)
        \/ \E d \in Dates : DiffWriteBegin(c, d)
        \/ \E d \in Dates : DiffWriteEnd(c, d)
        \/ GsdExists(c)
        \/ GsdCallReturn(c)
        \/ GsdAssert(c)
        \/ ReadSnapshot(c)
        \/ \E d \in Dates : TaskStart(c, d)
        \/ \E d \in Dates : TaskFetch(c, d)
        \/ \E d \in Dates : TaskWriteBegin(c, d)
        \/ \E d \in Dates : TaskWriteEnd(c, d)

SpecChangelog == InitChangelog /\ [][NextChangelog]_vars

\* Two tables compared: get_diff and get_changed_scores applied, each once,
\* to two snapshots.  A snapshot holds at most one row per CVE and one date in
\* all its rows; two snapshots of the same date are the same snapshot (their
\* rows may come in another order).
Absent == <<>>
ScoreMenu == {<<0, 0>>, <<100000, 500000>>, <<100004, 500000>>,
              <<100006, 500000>>, <<120000, 550000>>}
Snapshots == [Cves -> ScoreMenu \cup {Absent}]
DiffDates == {MIN_DATE, MIN_DATE + 1}

\* the rows of snapshot s, dated d, for the CVEs from..MaxCve in ascending order
RECURSIVE RowsOf(_, _, _)
RowsOf(s, d, from) ==
    IF from > MaxCve THEN <<>>
    ELSE (IF s[from] = Absent THEN <<>>
          ELSE <<[cve |-> from, date |-> d,
                  epss |-> s[from][1], percentile |-> s[from][2]]>>)
         \o RowsOf(s, d, from + 1)

Reverse(q) == [i \in 1..Len(q) |-> q[Len(q) + 1 - i]]

TableOf(s, d, descending) ==
    IF descending THEN Reverse(RowsOf(s, d, 1)) ELSE RowsOf(s, d, 1)

InitDiff ==
    /\ \E sa, sb \in Snapshots, da, db \in DiffDates, ra, rb \in BOOLEAN :
           /\ da = db => sa = sb
           /\ dfA = TableOf(sa, da, ra)
           /\ dfB = TableOf(sb, db, rb)
    /\ diff = [error |-> "pending", rows |-> <<>>]
    /\ changed = [error |-> "pending", rows |-> <<>>]
    /\ NoCalls
    /\ NoHistory
    /\ published = {}
    /\ snap = [d \in Dates |-> "absent"]
    /\ clog = [d \in Dates |-> "absent"]
    /\ op = [c \in Callers |-> "idle"]
    /\ args = [c \in Callers |-> [lo |-> 0, hi |-> 0, flag |-> FALSE]]
    /\ pc = [c \in Callers |-> "idle"]
    /\ out = [c \in Callers |-> "none"]
    /\ res = [c \in Callers |-> "none"]
    /\ cursor = [c \in Callers |-> 0]
    /\ task = [c \in Callers |-> [d \in Dates |-> "none"]]
    /\ collected = [c \in Callers |-> {}]
    /\ sawPresent = [c \in Callers |-> {}]
    /\ fetched = [c \in Callers |-> {}]
    /\ deleted = FALSE

GetDiff ==
    /\ diff.error = "pending"
    /\ diff' = get_diff(dfA, dfB)
    /\ UNCHANGED <<dfA, dfB, changed, cacheVars, histVars, fnVars>>

\* (the two functions are applied one after the other)
GetChangedScores ==
    /\ diff.error # "pending"
    /\ changed.error = "pending"
    /\ changed' = get_changed_scores(dfA, dfB)
    /\ UNCHANGED <<dfA, dfB, diff, cacheVars, histVars, fnVars>>

NextDiff == GetDiff \/ GetChangedScores

SpecDiff == InitDiff /\ [][NextDiff]_vars

\* The changelog builder with the tables it handles: one call at a time on a
\* cache directory whose snapshots are in place or missing, after at most one
\* earlier call that left its changelog files behind.  The changelog cache is
\* written here in one step; its half-written files are SpecChangelog's matter.
Days == MIN_DATE..(MaxDate + 1)

\* a Query by its cve_ids; the empty set is the query that keeps every row
Queries == {{}, {1}}

HistoryOps == {"get_score_diff_dataframe", "iter_score_diff_dataframes",
               "get_historical_diff_dataframe"}

\* the published snapshot of day d: CVE 1, if in `world`, alternates between
\* two scores from one day to the next, another CVE of `world` goes round
\* three, and the CVEs outside `world` keep theirs
WorldSnapshot(d) ==
    [e \in Cves |->
        IF e \notin world THEN <<100000, 500000>>
        ELSE IF e = 1
        THEN (IF d % 2 = 0 THEN <<120000, 550000>> ELSE <<100000, 500000>>)
        ELSE (IF d % 3 = 0 THEN <<100006, 500000>>
              ELSE IF d % 3 = 1 THEN <<100000, 500000>>
              ELSE <<120000, 550000>>)]

WorldTable(d) == TableOf(WorldSnapshot(d), d, FALSE)

\* a read that leaves the query out
Unfiltered(df, q) == df

\* epss.filter_dataframe with a query that names CVE ids only
filter_dataframe(df, q) ==
    IF q = {} THEN df ELSE SelectSeq(df, LAMBDA r : r.cve \in q)

\* util.iter_pairwise over util.iter_dates_in_range(lo, hi): the second dates
PairDates(lo, hi) == {d \in Days : lo < d /\ d <= hi}

RangeStart(d) == call.lo

\* the first date of the pair whose second date is d, in the call at work
FirstDate(d) ==
    IF call.name = "get_score_diff_dataframe" THEN call.lo ELSE d - 1

\* the pair tasks the call at work runs
CallPairs ==
    IF call.name = "get_score_diff_dataframe" THEN {call.hi}
    ELSE PairDates(call.lo, call.hi)

\* iter_score_diff_dataframes takes its sequential branch
Sequential == call.name = "iter_score_diff_dataframes" /\ call.po

PairRunning == {"pending", "read", "compute", "write"}
PairErrors == {"TypeError", "ZeroDivisionError"}
InFlight == {d \in Days : ptask[d] \in PairRunning}

NoCall == [name |-> "idle", lo |-> 0, hi |-> 0, po |-> FALSE, query |-> {}]
NoOutput == [error |-> "pending", rows |-> <<>>]

\* A call starts.  get_score_diff_dataframe runs its one pair in the calling
\* thread; iter_score_diff_dataframes(preserve_order=False) and
\* get_historical_diff_dataframe (which passes preserve_order=False whatever
\* its own argument) submit every pair to the pool before taking any result.
StartHistory(name, lo, hi, po, q) ==
    /\ hpc = "idle"
    /\ call' = [name |-> name, lo |-> lo, hi |-> hi, po |-> po, query |-> q]
    /\ clog0' = hclog
    /\ hout' = NoOutput
    /\ IF name = "iter_score_diff_dataframes" /\ po
       THEN /\ hpc' = "seq"
            /\ UNCHANGED ptask
       ELSE /\ hpc' = "collect"
            /\ ptask' = [d \in Days |->
                  IF (name = "get_score_diff_dataframe" /\ d = hi)
                     \/ (name # "get_score_diff_dataframe"
                         /\ d \in PairDates(lo, hi))
                  THEN "pending" ELSE "none"]
    /\ UNCHANGED <<world, hsnap, hclog, pres, earlier, cacheVars, dataVars, fnVars>>

\* iter_score_diff_dataframes, preserve_order=True: the loop calls
\* get_score_diff_dataframe for the next pair
HistSeqCall ==
    /\ hpc = "seq"
    /\ InFlight = {}
    /\ \E d \in CallPairs :
          /\ ptask[d] = "none"
          /\ \A e \in CallPairs : e < d => ptask[e] = "taken"
          /\ ptask' = [ptask EXCEPT ![d] = "pending"]
    /\ UNCHANGED <<world, hsnap, hclog, call, hpc, pres, hout, clog0, earlier,
                   cacheVars, dataVars, fnVars>>

\* get_score_diff_dataframe: os.path.exists(path of the second date)
PairStart(d) ==
    /\ ptask[d] = "pending"
    /\ ptask' = [ptask EXCEPT ![d] = IF hclog[d].present THEN "read"
                                     ELSE "compute"]
    /\ UNCHANGED <<world, hsnap, hclog, call, hpc, pres, hout, clog0, earlier,
                   cacheVars, dataVars, fnVars>>

\* ... the file is there: read_dataframe(path, query)
PairRead(d) ==
    /\ ptask[d] = "read"
    /\ pres' = [pres EXCEPT ![d] = filter_dataframe(hclog[d].rows, call.query)]
    /\ ptask' = [ptask EXCEPT ![d] = "ok"]
    /\ UNCHANGED <<world, hsnap, hclog, call, hpc, hout, clog0, earlier,
                   cacheVars, dataVars, fnVars>>

\* ... it is not: the two snapshots, each through get_score_dataframe (whose
\* download of a missing snapshot raises TypeError), then get_diff
PairCompute(d) ==
    /\ ptask[d] = "compute"
    /\ IF FirstDate(d) \notin hsnap \/ d \notin hsnap
       THEN /\ ptask' = [ptask EXCEPT ![d] = "TypeError"]
            /\ UNCHANGED pres
       ELSE LET a == filter_dataframe(WorldTable(FirstDate(d)), call.query)
                b == filter_dataframe(WorldTable(d), call.query)
                df == get_diff(a, b)
            IN  IF df.error # "none"
                THEN /\ ptask' = [ptask EXCEPT ![d] = df.error]
                     /\ UNCHANGED pres
                ELSE /\ ptask' = [ptask EXCEPT ![d] = "write"]
                     /\ pres' = [pres EXCEPT ![d] = df.rows]
    /\ UNCHANGED <<world, hsnap, hclog, call, hpc, hout, clog0, earlier,
                   cacheVars, dataVars, fnVars>>

\* ... util.write_dataframe(df, path of the second date)
PairWrite(d) ==
    /\ ptask[d] = "write"
    /\ hclog' = [hclog EXCEPT ![d] = [present |-> TRUE, rows |-> pres[d]]]
    /\ ptask' = [ptask EXCEPT ![d] = "ok"]
    /\ UNCHANGED <<world, hsnap, call, hpc, pres, hout, clog0, earlier,
                   cacheVars, dataVars, fnVars>>

\* The caller takes the result of a finished pair: the sequential loop and
\* get_score_diff_dataframe take the one they called, as_completed hands the
\* pooled ones over in the order they finish.  An exception leaves the loop;
\* the pool's `with` block then waits for the tasks still running.
HistCollect(d) ==
    /\ hpc \in {"seq", "collect"}
    /\ ptask[d] \in {"ok"} \cup PairErrors
    /\ IF ptask[d] = "ok"
       THEN /\ hout' = [hout EXCEPT !.rows = @ \o pres[d]]
            /\ UNCHANGED hpc
       ELSE /\ hout' = [hout EXCEPT !.error = ptask[d]]
            /\ hpc' = IF hpc = "seq" \/ InFlight = {} THEN "done" ELSE "drain"
    /\ ptask' = [ptask EXCEPT ![d] = "taken"]
    /\ UNCHANGED <<world, hsnap, hclog, call, pres, clog0, earlier,
                   cacheVars, dataVars, fnVars>>

HistShutdown ==
    /\ hpc = "drain"
    /\ InFlight = {}
    /\ hpc' = "done"
    /\ UNCHANGED <<world, hsnap, hclog, call, ptask, pres, hout, clog0,
                   earlier, cacheVars, dataVars, fnVars>>

ScoreRangeOps == {"get_score_range_dataframe", "get_score_range_tuple_by_cve_id"}

MinOf(S) == CHOOSE x \in S : \A y \in S : x <= y
MaxOf(S) == CHOOSE x \in S : \A y \in S : x >= y

\* df.groupby('cve').agg(min and max of `epss` and of `percentile`), the two
\* changes and their percentages, rounded: the row of CVE e
ScoreRangeRow(df, e) ==
    LET rs == SelectSeq(df, LAMBDA r : r.cve = e)
        scores_ == {rs[i].epss.v : i \in 1..Len(rs)}
        percentiles == {rs[i].percentile.v : i \in 1..Len(rs)}
        epss_change == Num(MaxOf(scores_) - MinOf(scores_))
        percentile_change == Num(MaxOf(percentiles) - MinOf(percentiles))
    IN  [cve |-> e,
         min_epss |-> Num(MinOf(scores_)), max_epss |-> Num(MaxOf(scores_)),
         min_percentile |-> Num(MinOf(percentiles)),
         max_percentile |-> Num(MaxOf(percentiles)),
         epss_change |-> rejig_dataframe_precision(epss_change),
         percentile_change |-> rejig_dataframe_precision(percentile_change),
         epss_change_pct |-> PctChange(epss_change, Num(MinOf(scores_))),
         percentile_change_pct |->
             PctChange(percentile_change, Num(MinOf(percentiles)))]

\* the rows of the CVEs from e on, in ascending order
RECURSIVE ScoreRangeRows(_, _)
ScoreRangeRows(df, e) ==
    IF e > MaxCve THEN <<>>
    ELSE (IF \E i \in 1..Len(df) : df[i].cve = e
          THEN <<ScoreRangeRow(df, e)>> ELSE <<>>) \o ScoreRangeRows(df, e + 1)

\* Client.get_score_range_dataframe on the changelog df: the groups come in
\* no promised order (here ascending or descending by CVE), and
\* df.sort(by=DEFAULT_SORTING_KEY) raises ColumnNotFoundError, the aggregated
\* frame having no `date` column
get_score_range_dataframe(df, preserve_order, descending) ==
    IF preserve_order THEN [error |-> "ColumnNotFoundError", rows |-> <<>>]
    ELSE [error |-> "none",
          rows |-> IF descending THEN Reverse(ScoreRangeRows(df, 1))
                   ELSE ScoreRangeRows(df, 1)]

\* Client.get_score_range_tuple_by_cve_id, after its call of
\* get_score_range_dataframe (preserve_order left at True) gave df
get_score_range_tuple_by_cve_id(df) ==
    IF df.error # "none" THEN df
    ELSE IF Len(df.rows) = 0
    THEN [error |-> "ValueError: No EPSS scores found", rows |-> <<>>]
    ELSE [error |-> "none",
          rows |-> <<[min_epss |-> df.rows[1].min_epss,
                      max_epss |-> df.rows[1].max_epss]>>]

\* Every pair was taken.  get_historical_diff_dataframe: pl.concat(dfs), which
\* raises ValueError for no frame at all, then df.sort(by=DEFAULT_SORTING_KEY)
\* if preserve_order.  The score-range functions call it with
\* preserve_order=False and go on with what it returns.
HistReturn ==
    /\ hpc \in {"seq", "collect"}
    /\ \A d \in CallPairs : ptask[d] = "taken"
    /\ hpc' = "done"
    /\ \E descending \in BOOLEAN :
        hout' = IF call.name \in {"get_score_diff_dataframe",
                                  "iter_score_diff_dataframes"}
                THEN [hout EXCEPT !.error = "none"]
                ELSE IF CallPairs = {}
                THEN [hout EXCEPT !.error = "ValueError"]
                ELSE IF call.name = "get_historical_diff_dataframe"
                THEN [error |-> "none",
                      rows |-> IF call.po THEN SortByDateAndCve(hout.rows)
                               ELSE hout.rows]
                ELSE IF call.name = "get_score_range_dataframe"
                THEN get_score_range_dataframe(hout.rows, call.po, descending)
                ELSE get_score_range_tuple_by_cve_id(
                         get_score_range_dataframe(hout.rows, TRUE, descending))
    /\ UNCHANGED <<world, hsnap, hclog, call, ptask, pres, clog0, earlier,
                   cacheVars, dataVars, fnVars>>

\* the host program goes on to its next call
NextCall ==
    /\ hpc = "done"
    /\ ~earlier
    /\ earlier' = TRUE
    /\ hpc' = "idle"
    /\ call' = NoCall
    /\ hout' = NoOutput
    /\ ptask' = [d \in Days |-> "none"]
    /\ pres' = [d \in Days |-> <<>>]
    /\ UNCHANGED <<world, hsnap, hclog, clog0, cacheVars, dataVars, fnVars>>

InitHistory ==
    /\ NoTables
    /\ IdleCache
    /\ world \in {{}, {1}, Cves}
    /\ hsnap \in {Days} \cup {Days \ {d} : d \in Days}
    /\ hclog = [d \in Days |-> [present |-> FALSE, rows |-> <<>>]]
    /\ call = NoCall
    /\ hpc = "idle"
    /\ ptask = [d \in Days |-> "none"]
    /\ pres = [d \in Days |-> <<>>]
    /\ hout = NoOutput
    /\ clog0 = hclog
    /\ earlier = FALSE

NextHistory ==
    \/ \E name \in HistoryOps, lo, hi \in Days, po \in BOOLEAN, q \in Queries :
          StartHistory(name, lo, hi, po, q)
    \/ \E lo, hi \in Days, po \in BOOLEAN, q \in Queries :
          StartHistory("get_score_range_dataframe", lo, hi, po, q)
    \/ \E lo, hi \in Days, e \in {1, MaxCve + 1} :
          StartHistory("get_score_range_tuple_by_cve_id", lo, hi, TRUE, {e})
    \/ HistSeqCall
    \/ \E d \in Days : PairStart(d)
    \/ \E d \in Days : PairRead(d)
    \/ \E d \in Days : PairCompute(d)
    \/ \E d \in Days : PairWrite(d)
    \/ \E d \in Days : HistCollect(d)
    \/ HistShutdown
    \/ HistReturn
    \/ NextCall

SpecHistory == InitHistory /\ [][NextHistory]_vars

\* --------------------------------------------------------- query filters
\* The two query filters applied, one after the other, to one table.  A CVE
\* id is a string, here a sequence of characters: "1", "2" and "12" are ids
\* of rows; a query may also list "1.", which no row carries.
RowIds == {<<"1">>, <<"2">>, <<"1", "2">>}
QueryIdSets == {{}, {<<"1">>}, {<<"1", ".">>}}
RowScores == {<<0, 0>>, <<100000, 500000>>, <<120000, 550000>>}

QueryRows ==
    {[cve |-> i, date |-> MIN_DATE, epss |-> v[1], percentile |-> v[2]] :
        i \in RowIds, v \in RowScores}

\* the tables of at most MaxCve rows
QueryTables == UNION {[1..n -> QueryRows] : n \in 0..MaxCve}

\* Query(cve_ids, min_score, max_score, min_percentile, max_percentile); a
\* field left at None is Null, and `given` is FALSE where the caller passed no
\* Query at all
SetQueries ==
    [given : {TRUE}, cve_ids : QueryIdSets,
     min_score : {Null, Num(0), Num(100000)},
     max_score : {Null, Num(0), Num(100000)},
     min_percentile : {Null, Num(500000)},
     max_percentile : {Null, Num(500000)}]

NoQuery ==
    [given |-> FALSE, cve_ids |-> {}, min_score |-> Null, max_score |-> Null,
     min_percentile |-> Null, max_percentile |-> Null]

EveryValueTrue(x) == TRUE

\* Python's truth value of an Optional[float]: None and 0.0 are false
Truthy(x) == x.kind = "num" /\ x.v # 0

\* epss.filter_dataframe_with_query, and the predicates filter_dataframe
\* builds from the query's bounds (its date bounds are never passed here)
filter_dataframe_with_query(df, q) ==
    LET Keep(r) ==
            /\ Truthy(q.min_score) => r.epss >= q.min_score.v
            /\ Truthy(q.max_score) => r.epss <= q.max_score.v
            /\ Truthy(q.min_percentile) => r.percentile >= q.min_percentile.v
            /\ Truthy(q.max_percentile) => r.percentile <= q.max_percentile.v
    IN  IF ~q.given THEN df
        ELSE SelectSeq(filter_dataframe(df, q.cve_ids), Keep)

\* the regular expression `pattern` matches the string s from position i on
\* ("." stands for any character)
MatchesAt(pattern, s, i) ==
    /\ i + Len(pattern) - 1 <= Len(s)
    /\ \A k \in 1..Len(pattern) :
           pattern[k] = "." \/ pattern[k] = s[i + k - 1]

\* pl.col('cve').str.contains('|'.join(cve_ids))
str_contains(s, cve_ids) ==
    \E pattern \in cve_ids, i \in 1..Len(s) : MatchesAt(pattern, s, i)

\* PolarsClient.filter_scores (client.py names the score bounds min_epss and
\* max_epss); the dates kept are those of get_date_range()
filter_scores(df, q) ==
    LET Keep(r) ==
            /\ r.date >= MIN_DATE
            /\ r.date <= MaxDate
            /\ q.cve_ids # {} => str_contains(r.cve, q.cve_ids)
            /\ Truthy(q.min_score) => r.epss >= q.min_score.v
            /\ Truthy(q.max_score) => r.epss <= q.max_score.v
            /\ Truthy(q.min_percentile) => r.percentile >= q.min_percentile.v
            /\ Truthy(q.max_percentile) => r.percentile <= q.max_percentile.v
    IN  IF ~q.given THEN [error |-> "AttributeError", rows |-> <<>>]
        ELSE [error |-> "none", rows |-> SelectSeq(df, Keep)]

Pending == [error |-> "pending", rows |-> <<>>]

InitQuery ==
    /\ qdf \in QueryTables
    /\ query \in SetQueries \cup {NoQuery}
    /\ filtered = Pending
    /\ scores = Pending
    /\ dfA = <<>>
    /\ dfB = <<>>
    /\ diff = Pending
    /\ changed = Pending
    /\ NoPartitionCall
    /\ NoRangeCall
    /\ NoFileRead
    /\ NoClientCall
    /\ NoHistory
    /\ IdleCache

FilterDataframeWithQuery ==
    /\ filtered = Pending
    /\ filtered' = [error |-> "none",
                    rows |-> filter_dataframe_with_query(qdf, query)]
    /\ UNCHANGED <<qdf, query, scores, partVars, rangeVars, fileVars, clientVars,
                   cacheVars, dataVars, histVars>>

FilterScores ==
    /\ filtered # Pending
    /\ scores = Pending
    /\ scores' = filter_scores(qdf, query)
    /\ UNCHANGED <<qdf, query, filtered, partVars, rangeVars, fileVars, clientVars,
                   cacheVars, dataVars, histVars>>

NextQuery == FilterDataframeWithQuery \/ FilterScores

SpecQuery == InitQuery /\ [][NextQuery]_vars

\* ------------------------------------------------- partitions on disk
\* write_partitioned_dataframe_to_dir called once on a directory that may
\* hold partition files already.  The directory is one place on disk,
\* "/cache", that the caller may name in four ways; a path is <<directory
\* name, partition key>>, and a file is kept under its real path.
DirNames == {"/cache", "cache", "/link", "~/cache"}

\* util.realpath: expandvars, expanduser, os.path.realpath
realpath(path) == <<"/cache", path[2]>>

PartitionKeys == Dates \cup Cves
PartitionRows == [cve : Cves, date : Dates, epss : {100000}]
PartitionTables == UNION {[1..n -> PartitionRows] : n \in 0..2}

NoFile == [present |-> FALSE, rows |-> <<>>]
\* what an earlier table left in the file of partition k
OldFile(k) ==
    [present |-> TRUE, rows |-> <<[cve |-> k, date |-> k, epss |-> 0]>>]

\* partition_dataframe: the unique values of the key column, and the rows of
\* each
KeysOf(df, key) ==
    {IF key = "cve" THEN df[i].cve ELSE df[i].date : i \in 1..Len(df)}

PartitionOf(df, key, k) ==
    SelectSeq(df, LAMBDA r : (IF key = "cve" THEN r.cve ELSE r.date) = k)

\* get_path(k): os.path.join(output_dir, f"{k}.{file_format}")
get_path(k) == <<wargs.output_dir, k>>

\* util.iter_paths(output_dir): os.listdir of the real directory, each name
\* joined to the real directory
iter_paths == {<<"/cache", k>> : k \in {j \in PartitionKeys : wdir.files[j].present}}

InitPartition ==
    /\ \E exists \in BOOLEAN, present \in SUBSET PartitionKeys :
          /\ ~exists => present = {}
          /\ wdir = [exists |-> exists,
                     files |-> [k \in PartitionKeys |->
                                   IF k \in present THEN OldFile(k) ELSE NoFile]]
    /\ wargs \in [df : PartitionTables, output_dir : DirNames,
                  partitioning_key : {"date", "cve", "epss"},
                  overwrite : BOOLEAN]
    /\ wpc = "start"
    /\ wtasks = {}
    /\ werr = "none"
    /\ wdir0 = wdir
    /\ NoQueryCall
    /\ NoRangeCall
    /\ NoFileRead
    /\ NoClientCall
    /\ dfA = <<>>
    /\ dfB = <<>>
    /\ diff = Pending
    /\ changed = Pending
    /\ NoHistory
    /\ IdleCache

\* The call up to the end of its submit loop: the existing paths are listed
\* if overwrite is False (os.listdir raises FileNotFoundError for a directory
\* that is not there), then every partition is submitted unless overwrite is
\* False and its path is among those listed.  partition_dataframe raises
\* ValueError for a key other than 'cve' and 'date' when the loop asks it
\* for the first partition.
PartitionSubmit ==
    /\ wpc = "start"
    /\ IF ~wargs.overwrite /\ ~wdir.exists
       THEN /\ werr' = "FileNotFoundError"
            /\ wpc' = "done"
            /\ UNCHANGED wtasks
       ELSE IF wargs.partitioning_key \notin {"cve", "date"}
       THEN /\ werr' = "ValueError"
            /\ wpc' = "done"
            /\ UNCHANGED wtasks
       ELSE /\ wtasks' = {k \in KeysOf(wargs.df, wargs.partitioning_key) :
                            wargs.overwrite \/ get_path(k) \notin iter_paths}
            /\ wpc' = "wait"
            /\ UNCHANGED werr
    /\ UNCHANGED <<wdir, wargs, wdir0, queryVars, rangeVars, fileVars,
                   clientVars, cacheVars, dataVars, histVars>>

\* A pool task: util.write_dataframe(df=p, path=path) writes to the real path
\* of `path`, creating the directory if need be.
PartitionWrite(k) ==
    /\ wpc = "wait"
    /\ k \in wtasks
    /\ wdir' = [exists |-> TRUE,
                files |-> [wdir.files EXCEPT ![realpath(get_path(k))[2]] =
                    [present |-> TRUE,
                     rows |-> PartitionOf(wargs.df, wargs.partitioning_key, k)]]]
    /\ wtasks' = wtasks \ {k}
    /\ UNCHANGED <<wargs, wpc, werr, wdir0, queryVars, rangeVars, fileVars,
                   clientVars, cacheVars, dataVars, histVars>>

\* every future's result() was taken and the pool shut down
PartitionReturn ==
    /\ wpc = "wait"
    /\ wtasks = {}
    /\ wpc' = "done"
    /\ UNCHANGED <<wdir, wargs, wtasks, werr, wdir0, queryVars, rangeVars, fileVars,
                   clientVars, cacheVars, dataVars, histVars>>

NextPartition ==
    \/ PartitionSubmit
    \/ \E k \in PartitionKeys : PartitionWrite(k)
    \/ PartitionReturn

SpecPartition == InitPartition /\ [][NextPartition]_vars

\* ------------------------------------------------------------ date ranges
\* A caller's date bounds resolved: by BaseClient.get_date_range, whose
\* result BaseClient.iter_dates hands to util.iter_dates_in_range, and by the
\* first lines of Client.get_historical_diff_dataframe.  The earliest date
\* with scores is MIN_DATE, the latest MaxDate; a bound is omitted (0) or a
\* day, from before the earliest to two days after the latest.
SuppliedDates == (MIN_DATE - 2)..(MaxDate + 2)

InitRange ==
    /\ rbounds \in [min_date : SuppliedDates, max_date : SuppliedDates]
    /\ rrange = [error |-> "pending", lo |-> 0, hi |-> 0]
    /\ rdates = [error |-> "pending", dates |-> {}]
    /\ rhist = [error |-> "pending", lo |-> 0, hi |-> 0]
    /\ NoQueryCall
    /\ NoPartitionCall
    /\ NoFileRead
    /\ NoClientCall
    /\ dfA = <<>>
    /\ dfB = <<>>
    /\ diff = Pending
    /\ changed = Pending
    /\ NoHistory
    /\ IdleCache

CallGetDateRange ==
    /\ rrange.error = "pending"
    /\ rrange' = LET r == GetDateRange(rbounds.min_date, rbounds.max_date)
                 IN  [error |-> "none", lo |-> r[1], hi |-> r[2]]
    /\ UNCHANGED <<rbounds, rdates, rhist, queryVars, partVars, fileVars, clientVars,
                   cacheVars, dataVars, histVars>>

\* BaseClient.iter_dates, drained by its caller
IterDates ==
    /\ rrange.error # "pending"
    /\ rdates.error = "pending"
    /\ rdates' = [error |-> rrange.error,
                  dates |-> IterDatesInRange(rrange.lo, rrange.hi)]
    /\ UNCHANGED <<rbounds, rrange, rhist, queryVars, partVars, fileVars, clientVars,
                   cacheVars, dataVars, histVars>>

\* Client.get_historical_diff_dataframe: parse_date(min_date or self.min_date)
\* and the same for max_date
HistoricalRange ==
    /\ rdates.error # "pending"
    /\ rhist.error = "pending"
    /\ rhist' = LET r == DefaultDateRange(rbounds.min_date, rbounds.max_date)
                IN  [error |-> "none", lo |-> r[1], hi |-> r[2]]
    /\ UNCHANGED <<rbounds, rrange, rdates, queryVars, partVars, fileVars, clientVars,
                   cacheVars, dataVars, histVars>>

NextRange == CallGetDateRange \/ IterDates \/ HistoricalRange

SpecRange == InitRange /\ [][NextRange]_vars

\* ---------------------------------------------------------- reading files
\* One file read by epss.read_dataframe and by client.read_dataframe, no
\* date passed.  A file name is a string, here a sequence of characters; day n
\* is the calendar date 2024-01-n.
DigitValue ==
    ("0" :> 0) @@ ("1" :> 1) @@ ("2" :> 2) @@ ("3" :> 3) @@ ("4" :> 4) @@
    ("5" :> 5) @@ ("6" :> 6) @@ ("7" :> 7) @@ ("8" :> 8) @@ ("9" :> 9)

DigitChar == [n \in 0..9 |-> CHOOSE c \in DOMAIN DigitValue : DigitValue[c] = n]

\* date.isoformat()
isoformat(d) ==
    <<"2", "0", "2", "4", "-", "0", "1", "-",
      DigitChar[d \div 10], DigitChar[d % 10]>>

\* get_file_path: os.path.join(directory, f"{date.isoformat()}.{file_format}"),
\* the base name
get_file_path(d) == isoformat(d) \o <<".", "p", "a", "r", "q", "u", "e", "t">>

IsDigit(c) == c \in DOMAIN DigitValue

\* the regex (\d{4}-\d{2}-\d{2}) matches the name from position i on
DateAt(name, i) ==
    /\ i + 9 <= Len(name)
    /\ \A k \in {0, 1, 2, 3, 5, 6, 8, 9} : IsDigit(name[i + k])
    /\ name[i + 4] = "-"
    /\ name[i + 7] = "-"

\* datetime.date.fromisoformat of the ten characters from position i on: a
\* month or a day that no calendar has raises ValueError
fromisoformat(name, i) ==
    LET year == 1000 * DigitValue[name[i]] + 100 * DigitValue[name[i + 1]]
                + 10 * DigitValue[name[i + 2]] + DigitValue[name[i + 3]]
        month == 10 * DigitValue[name[i + 5]] + DigitValue[name[i + 6]]
        day == 10 * DigitValue[name[i + 8]] + DigitValue[name[i + 9]]
    IN  IF month \notin 1..12 \/ day \notin 1..31
        THEN [error |-> "ValueError", date |-> Null]
        ELSE [error |-> "none",
              date |-> Num((year - 2024) * 372 + (month - 1) * 31 + day)]

\* util.get_date_from_filename: re.search takes the leftmost match; no match,
\* no date (None)
get_date_from_filename(name) ==
    LET starts == {i \in 1..Len(name) : DateAt(name, i)}
    IN  IF starts = {} THEN [error |-> "none", date |-> Null]
        ELSE fromisoformat(name, MinOf(starts))

\* The names read: the cache path of a day, a downloaded file named after
\* its day, a name that holds no date, and one that holds no calendar date.
FileNames ==
    {[name |-> get_file_path(d), date |-> d] : d \in Dates}
    \cup {[name |-> <<"e", "p", "s", "s", "-">> \o isoformat(d)
                     \o <<".", "c", "s", "v">>,
           date |-> d] : d \in Dates}
    \cup {[name |-> <<"s", "c", "o", "r", "e", "s", ".", "c", "s", "v">>,
           date |-> 0],
          [name |-> <<"2", "0", "2", "4", "-", "1", "3", "-", "0", "1",
                      ".", "c", "s", "v">>,
           date |-> 0]}

\* the rows of the file: with a `date` column (of day d) or without
FileRows(n, d) == [i \in 1..n |-> [cve |-> i, date |-> Num(d)]]

\* with_columns(date=date) on every row
WithDate(rows, date) == [i \in 1..Len(rows) |-> [rows[i] EXCEPT !.date = date]]

\* epss.read_dataframe(path), no query
read_dataframe(f) ==
    IF "date" \in f.columns THEN [error |-> "none", rows |-> f.rows]
    ELSE LET found == get_date_from_filename(f.name)
         IN  IF found.error # "none"
             THEN [error |-> found.error, rows |-> <<>>]
             ELSE [error |-> "none", rows |-> WithDate(f.rows, found.date)]

\* client.read_dataframe(path), no date passed
client_read_dataframe(f) ==
    IF "date" \in f.columns THEN [error |-> "none", rows |-> f.rows]
    ELSE LET found == get_date_from_filename(f.name)
         IN  IF found.error # "none"
             THEN [error |-> found.error, rows |-> <<>>]
             ELSE IF found.date = Null
             THEN [error |-> "AssertionError", rows |-> <<>>]
             ELSE [error |-> "none", rows |-> WithDate(f.rows, found.date)]

InitFile ==
    /\ \E file \in FileNames, n \in 0..MaxCve, col \in {0} \cup Dates :
          fpath = [name |-> file.name, date |-> file.date,
                   columns |-> IF col = 0 THEN {"cve"} ELSE {"cve", "date"},
                   rows |-> IF col = 0 THEN WithDate(FileRows(n, 0), Null)
                            ELSE FileRows(n, col)]
    /\ fdf = Pending
    /\ fdf2 = Pending
    /\ NoQueryCall
    /\ NoPartitionCall
    /\ NoRangeCall
    /\ NoClientCall
    /\ dfA = <<>>
    /\ dfB = <<>>
    /\ diff = Pending
    /\ changed = Pending
    /\ NoHistory
    /\ IdleCache

ReadDataframe ==
    /\ fdf = Pending
    /\ fdf' = read_dataframe(fpath)
    /\ UNCHANGED <<fpath, fdf2, queryVars, partVars, rangeVars, clientVars,
                   cacheVars, dataVars, histVars>>

ClientReadDataframe ==
    /\ fdf2 = Pending
    /\ fdf2' = client_read_dataframe(fpath)
    /\ UNCHANGED <<fpath, fdf, queryVars, partVars, rangeVars, clientVars,
                   cacheVars, dataVars, histVars>>

NextFile == ReadDataframe \/ ClientReadDataframe

SpecFile == InitFile /\ [][NextFile]_vars

\* ------------------------------------------------------- model versions
\* client.py: get_min_date, get_max_date and get_date_range under the
\* include_v1_scores / include_v2_scores / include_v3_scores flags.

\* constants.py, as <<year, month, day>>
V1_RELEASE_DATE == <<2021, 4, 14>>
V2_RELEASE_DATE == <<2022, 2, 4>>
V3_RELEASE_DATE == <<2023, 3, 7>>

\* the number of the day <<y, m, d>> in the proleptic Gregorian calendar
\* (the day count datetime.date orders and subtracts by)
toordinal(t) ==
    LET y == IF t[2] <= 2 THEN t[1] - 1 ELSE t[1]
        era == y \div 400
        yoe == y - era * 400
        mp == IF t[2] > 2 THEN t[2] - 3 ELSE t[2] + 9
        doy == (153 * mp + 2) \div 5 + t[3] - 1
        doe == yoe * 365 + yoe \div 4 - yoe \div 100 + doy
    IN  era * 146097 + doe - 305

\* util.parse_date of a 'YYYY-MM-DD' string, as a day number: the day of
\* V3_RELEASE_DATE is MIN_DATE
parse_date(t) == toordinal(t) - toordinal(V3_RELEASE_DATE) + MIN_DATE

get_epss_v1_min_date == parse_date(V1_RELEASE_DATE)
get_epss_v2_min_date == parse_date(V2_RELEASE_DATE)
get_epss_v3_min_date == parse_date(V3_RELEASE_DATE)
\* - datetime.timedelta(days=1)
get_epss_v1_max_date == get_epss_v2_min_date - 1
get_epss_v2_max_date == get_epss_v3_min_date - 1

\* get_epss_v3_max_date: the HEAD request for epss_scores-current.csv.gz and
\* the date in its Location header; 0: the request failed
get_epss_v3_max_date(latest) ==
    IF latest = 0 THEN [error |-> "ConnectionError", date |-> 0]
    ELSE [error |-> "none", date |-> latest]

get_min_date(include_v1_scores, include_v2_scores, include_v3_scores) ==
    IF include_v1_scores THEN get_epss_v1_min_date
    ELSE IF include_v2_scores THEN get_epss_v2_min_date
    ELSE IF include_v3_scores THEN get_epss_v3_min_date
    ELSE get_epss_v3_min_date

\* the same chain read from the oldest version on
OldestFirst(include_v1_scores, include_v2_scores, include_v3_scores, latest) ==
    IF include_v1_scores THEN [error |-> "none", date |-> get_epss_v1_max_date]
    ELSE IF include_v2_scores
    THEN [error |-> "none", date |-> get_epss_v2_max_date]
    ELSE get_epss_v3_max_date(latest)

get_max_date(include_v1_scores, include_v2_scores, include_v3_scores, latest) ==
    IF include_v3_scores THEN get_epss_v3_max_date(latest)
    ELSE IF include_v2_scores
    THEN [error |-> "none", date |-> get_epss_v2_max_date]
    ELSE IF include_v1_scores
    THEN [error |-> "none", date |-> get_epss_v1_max_date]
    ELSE get_epss_v3_max_date(latest)

\* the get_date_range(verify_tls) that client.py ends up with
get_date_range(latest) ==
    LET max_date == get_max_date(FALSE, FALSE, TRUE, latest)
    IN  [error |-> max_date.error, lo |-> get_min_date(FALSE, FALSE, TRUE),
         hi |-> max_date.date]

InitVersions ==
    /\ vflags \in BOOLEAN \X BOOLEAN \X BOOLEAN
    /\ vlatest \in {0} \cup Dates
    /\ vmin = Pending
    /\ vmax = Pending
    /\ vrange = Pending
    /\ NoClearCall
    /\ NoQueryCall
    /\ NoPartitionCall
    /\ NoRangeCall
    /\ NoFileRead
    /\ NoScoresCall
    /\ NoDownloadCall
    /\ dfA = <<>>
    /\ dfB = <<>>
    /\ diff = Pending
    /\ changed = Pending
    /\ NoHistory
    /\ IdleCache

GetMinDate ==
    /\ vmin = Pending
    /\ vmin' = [error |-> "none",
                date |-> get_min_date(vflags[1], vflags[2], vflags[3])]
    /\ UNCHANGED <<vflags, vlatest, vmax, vrange, queryVars, partVars,
                   rangeVars, fileVars, scoreVars, downloadVars, clearVars,
                   cacheVars, dataVars, histVars>>

GetMaxDate ==
    /\ vmax = Pending
    /\ vmax' = get_max_date(vflags[1], vflags[2], vflags[3], vlatest)
    /\ UNCHANGED <<vflags, vlatest, vmin, vrange, queryVars, partVars,
                   rangeVars, fileVars, scoreVars, downloadVars, clearVars,
                   cacheVars, dataVars, histVars>>

ModuleGetDateRange ==
    /\ vrange = Pending
    /\ vrange' = get_date_range(vlatest)
    /\ UNCHANGED <<vflags, vlatest, vmin, vmax, queryVars, partVars,
                   rangeVars, fileVars, scoreVars, downloadVars, clearVars,
                   cacheVars, dataVars, histVars>>

NextVersions == GetMinDate \/ GetMaxDate \/ ModuleGetDateRange

SpecVersions == InitVersions /\ [][NextVersions]_vars

\* ------------------------------------------------- PolarsClient.get_scores
\* PolarsClient.get_scores and get_scores_by_date, no query, over a cache
\* that holds the snapshot of every day.  A snapshot file keeps the order
\* of the download, which is ascending or descending by CVE here.
SnapshotFiles ==
    {[d \in Days |-> TableOf([e \in Cves |-> <<f[d][e], 500000>>], d, desc)] :
        f \in [Days -> [Cves -> {100000, 120000}]], desc \in BOOLEAN}

\* df.sort(by=['cve'], descending=False): ascending, rows of equal CVE in
\* the order they had
RECURSIVE SortByCve(_)
SortByCve(df) ==
    IF df = <<>> THEN <<>>
    ELSE LET r == df[Len(df)]
             rest == SortByCve(SubSeq(df, 1, Len(df) - 1))
         IN  SelectSeq(rest, LAMBDA x : x.cve <= r.cve) \o <<r>>
             \o SelectSeq(rest, LAMBDA x : x.cve > r.cve)

\* PolarsClient.get_scores_by_date(date): the file is there, it is read and
\* sorted
get_scores_by_date(files, d) == SortByCve(files[d])

\* util.iter_pairwise over the tables q: zip(a, b) of the two tees, b one
\* ahead
iter_pairwise(q) == [i \in 1..(Len(q) - 1) |-> <<q[i], q[i + 1]>>]

\* pl.concat of the tables of q
RECURSIVE concat(_)
concat(q) == IF q = <<>> THEN <<>> ELSE Head(q) \o concat(Tail(q))

\* what iter_pairwise(dfs) pairs up once next(dfs) has taken the first
\* table off the iterator
RemainingPairs(q) == iter_pairwise(Tail(q))

\* PolarsClient.get_scores(min_date, max_date, drop_unchanged_scores)
get_scores(files, lo, hi, drop_unchanged_scores) ==
    IF lo = hi
    THEN [error |-> "none", rows |-> get_scores_by_date(files, lo)]
    ELSE LET n == IF hi < lo THEN 0 ELSE hi - lo + 1
             dfs == [i \in 1..n |-> get_scores_by_date(files, lo + i - 1)]
         IN  IF ~drop_unchanged_scores
             THEN IF n = 0 THEN [error |-> "ValueError", rows |-> <<>>]
                  ELSE [error |-> "none", rows |-> SortRows(concat(dfs))]
             ELSE IF n = 0 THEN [error |-> "StopIteration", rows |-> <<>>]
             ELSE LET first == Head(dfs)
                      pairs == RemainingPairs(dfs)
                      changes == [i \in 1..Len(pairs) |->
                          get_changed_scores(pairs[i][1], pairs[i][2]).rows]
                  IN  [error |-> "none",
                       rows |-> SortRows(concat(<<first>> \o changes))]

InitScores ==
    /\ sfiles \in SnapshotFiles
    /\ \E lo, hi \in Days, drop \in BOOLEAN :
          sargs = [lo |-> lo, hi |-> hi, drop_unchanged_scores |-> drop]
    /\ sout = Pending
    /\ sday = Pending
    /\ NoVersionCall
    /\ NoDownloadCall
    /\ NoClearCall
    /\ NoQueryCall
    /\ NoPartitionCall
    /\ NoRangeCall
    /\ NoFileRead
    /\ dfA = <<>>
    /\ dfB = <<>>
    /\ diff = Pending
    /\ changed = Pending
    /\ NoHistory
    /\ IdleCache

GetScores ==
    /\ sout = Pending
    /\ sout' = get_scores(sfiles, sargs.lo, sargs.hi,
                          sargs.drop_unchanged_scores)
    /\ UNCHANGED <<sfiles, sargs, sday, verVars, downloadVars, clearVars,
                   queryVars, partVars, rangeVars, fileVars, cacheVars,
                   dataVars, histVars>>

GetScoresByDate ==
    /\ sout # Pending
    /\ sday = Pending
    /\ sday' = [error |-> "none", rows |-> get_scores_by_date(sfiles, sargs.lo)]
    /\ UNCHANGED <<sfiles, sargs, sout, verVars, downloadVars, clearVars,
                   queryVars, partVars, rangeVars, fileVars, cacheVars,
                   dataVars, histVars>>

NextScores == GetScores \/ GetScoresByDate

SpecScores == InitScores /\ [][NextScores]_vars

\* ------------------------------------------------ download_scores_by_date
\* One download of the snapshot of a date whose file is not in the cache, by
\* epss.download_scores_by_date(date, path, query) or by
\* BaseClient.download_scores_by_date(workdir, date).
DownloadFns == {"epss.download_scores_by_date",
                "BaseClient.download_scores_by_date"}

\* the Query of the call: {} for none, else the CVE ids it names
DownloadQueries == {{}, {1}, {MaxCve + 1}}

\* pl.read_csv of the response body: the columns of the published file,
\* which has no `date` column
ReadCsv(n) ==
    [columns |-> {"cve", "epss", "percentile"},
     rows |-> WithDate(FileRows(n, 0), Null)]

\* df.with_columns(date=date): a new frame; df itself is as it was
with_columns_date(df, date) ==
    [columns |-> df.columns \cup {"date"}, rows |-> WithDate(df.rows, Num(date))]

\* the frame named df once `df.with_columns(date=date)` has run with its
\* value dropped
AfterWithColumns(df, date) ==
    LET dropped == with_columns_date(df, date)
    IN  df

\* util.write_dataframe(df, path)
WrittenFile(df, date) ==
    [present |-> TRUE, name |-> get_file_path(date), columns |-> df.columns,
     rows |-> df.rows]

AbsentFile == [present |-> FALSE, name |-> <<>>, columns |-> {}, rows |-> <<>>]

InitDownload ==
    /\ \E fn \in DownloadFns, d \in Dates, q \in DownloadQueries,
          response \in {"ok", "HTTPError5xx", "ConnectionError"},
          n \in 0..MaxCve :
          /\ fn = "BaseClient.download_scores_by_date" => q = {}
          /\ dargs = [fn |-> fn, date |-> d, query |-> q,
                      response |-> response, rows |-> n]
    /\ dfile = AbsentFile
    /\ dout = "pending"
    /\ NoVersionCall
    /\ NoScoresCall
    /\ NoClearCall
    /\ NoQueryCall
    /\ NoPartitionCall
    /\ NoRangeCall
    /\ NoFileRead
    /\ dfA = <<>>
    /\ dfB = <<>>
    /\ diff = Pending
    /\ changed = Pending
    /\ NoHistory
    /\ IdleCache

\* requests.get, raise_for_status, pl.read_csv: a failure raises before
\* anything is written
DownloadFail ==
    /\ dout = "pending"
    /\ dargs.response # "ok"
    /\ dout' = dargs.response
    /\ UNCHANGED <<dargs, dfile, verVars, scoreVars, clearVars, queryVars,
                   partVars, rangeVars, fileVars, cacheVars, dataVars,
                   histVars>>

DownloadScoresByDate ==
    /\ dout = "pending"
    /\ dargs.response = "ok"
    /\ LET df == AfterWithColumns(ReadCsv(dargs.rows), dargs.date)
           kept == [df EXCEPT !.rows = filter_dataframe(df.rows, dargs.query)]
       IN  IF dargs.fn = "epss.download_scores_by_date"
              /\ dargs.query # {} /\ kept.rows = <<>>
           THEN dfile' = dfile
           ELSE dfile' = WrittenFile(kept, dargs.date)
    /\ dout' = "returned"
    /\ UNCHANGED <<dargs, verVars, scoreVars, clearVars, queryVars,
                   partVars, rangeVars, fileVars, cacheVars, dataVars,
                   histVars>>

\* the caller calls again after a failure
DownloadAgain ==
    /\ dout \notin {"pending", "returned"}
    /\ \E response \in {"ok", "HTTPError5xx"} :
          dargs' = [dargs EXCEPT !.response = response]
    /\ dout' = "pending"
    /\ UNCHANGED <<dfile, verVars, scoreVars, clearVars, queryVars,
                   partVars, rangeVars, fileVars, cacheVars, dataVars,
                   histVars>>

NextDownload == DownloadFail \/ DownloadScoresByDate \/ DownloadAgain

SpecDownload == InitDownload /\ [][NextDownload]_vars

\* ------------------------------------------------------------ Client.clear
\* Client.clear(delete_downloads) of epss.py, called twice in a row on a
\* disk that holds the working directory, or not, and files outside it.
RAW_SCORES_BY_DATE == "raw-scores-by-date"
CHANGELOGS_BY_DATE == "changelogs-by-date"
CHANGELOGS_BY_CVE == "changelogs-by-cve"
CacheDirs == {RAW_SCORES_BY_DATE, CHANGELOGS_BY_DATE, CHANGELOGS_BY_CVE}

NoDir == [exists |-> FALSE, files |-> {}]

\* what one directory of the working directory may be: not there, or there
\* with some partition files, named here by number
DirStates == {NoDir} \cup {[exists |-> TRUE, files |-> f] : f \in SUBSET Dates}

\* every one of them
AllDirectories(delete_downloads) == CacheDirs

\* the `directories` set clear builds
Directories(delete_downloads) ==
    {CHANGELOGS_BY_CVE, CHANGELOGS_BY_DATE}
    \cup (IF delete_downloads THEN {RAW_SCORES_BY_DATE} ELSE {})

\* the body of clear: nothing if the working directory is not there, else
\* shutil.rmtree of each directory of the set that exists
clear(disk, delete_downloads) ==
    IF ~disk.workdir THEN disk
    ELSE [disk EXCEPT !.dirs = [n \in CacheDirs |->
             IF n \in Directories(delete_downloads) /\ disk.dirs[n].exists
             THEN NoDir ELSE disk.dirs[n]]]

InitClear ==
    /\ \E workdir \in BOOLEAN, dirs \in [CacheDirs -> DirStates],
          outside \in BOOLEAN :
          /\ ~workdir => \A n \in CacheDirs : dirs[n] = NoDir
          /\ cdisk = [workdir |-> workdir, dirs |-> dirs, outside |-> outside]
    /\ cargs = <<>>
    /\ cpc = 0
    /\ cdisk0 = cdisk
    /\ NoVersionCall
    /\ NoScoresCall
    /\ NoDownloadCall
    /\ NoQueryCall
    /\ NoPartitionCall
    /\ NoRangeCall
    /\ NoFileRead
    /\ dfA = <<>>
    /\ dfB = <<>>
    /\ diff = Pending
    /\ changed = Pending
    /\ NoHistory
    /\ IdleCache

ClientClear(delete_downloads) ==
    /\ cpc < 2
    /\ cargs' = [delete_downloads |-> delete_downloads]
    /\ cdisk0' = cdisk
    /\ cdisk' = clear(cdisk, delete_downloads)
    /\ cpc' = cpc + 1
    /\ UNCHANGED <<verVars, scoreVars, downloadVars, queryVars, partVars,
                   rangeVars, fileVars, cacheVars, dataVars, histVars>>

NextClear == \E delete_downloads \in BOOLEAN : ClientClear(delete_downloads)

SpecClear == InitClear /\ [][NextClear]_vars

\* ================================================================ claims
SingleOps == {"get_scores_by_date", "get_score_dataframe"}
RangeOps == {"download_scores", "download_scores_over_time"}

\* caller c holds, or has written, a table it fetched for date d
Got(c, d) ==
    d \in fetched[c] /\ task[c][d] \in {"write", "writing", "orphan", "ok"}

\* c asked for d because it found d missing from the cache
MissRequest(c, d) == task[c][d] # "none" /\ d \notin sawPresent[c]

Returned(c) == pc[c] = "done" /\ out[c] = "returned"
Raised(c) == pc[c] = "done" /\ out[c] \in Exceptions

\* C1 (as claimed): of the requests that found date d missing, at most one
\* fetches d from the score source, and the callers that read d all get the
\* same data.
C1_SingleFlight ==
    /\ \A d \in Dates :
          Cardinality({c \in Callers : MissRequest(c, d) /\ Got(c, d)}) <= 1
    /\ \A c1, c2 \in Callers :
          (/\ op[c1] \in SingleOps /\ op[c2] \in SingleOps
           /\ args[c1].lo = args[c2].lo
           /\ Returned(c1) /\ Returned(c2)) => res[c1] = res[c2]

\* C2 (as claimed): a reader that found a cache path present never reads a
\* file whose writer has not finished.
C2_NoPartialRead == \A c \in Callers : res[c] # "partial"

ClearStep ==
    \E c \in Callers : pc[c] = "idle" /\ op'[c] = "clear" /\ args'[c].flag

\* C3 (as claimed): a snapshot file, once whole, stays as it is in every
\* later state unless a clear(delete_downloads=True) removes it.
C3_SnapshotImmutable ==
    [][\A d \in Dates :
          snap[d] = "full" => (snap'[d] = "full" \/ ClearStep)]_vars

SourceFailures == {"HTTPError404", "HTTPError5xx", "ConnectionError"}

FoundAbsent(c) ==
    /\ op[c] \in SingleOps
    /\ pc[c] \notin {"idle", "exists"}
    /\ args[c].lo \notin sawPresent[c]

\* C4 (as claimed): a single-date request that finds the snapshot of d absent
\* fetches it, stores it and returns its table; it raises only what the score
\* source made the fetch raise, and after a return the file exists (unless a
\* concurrent clear removed it).
C4_GetSnapshotFetches ==
    \A c \in Callers :
        (FoundAbsent(c) /\ pc[c] = "done" /\ ~deleted) =>
            /\ out[c] \in {"returned"} \cup SourceFailures
            /\ out[c] = "returned" =>
                   (Exists(args[c].lo) /\ args[c].lo \in fetched[c])

\* C5 (as claimed): a ranged download fetches a date only if it lies in the
\* resolved range and had no file when the loop examined it, and when it
\* returns normally every published date of the range is cached.
C5_EnsureRange ==
    \A c \in Callers :
        op[c] \in PoolOps =>
            /\ \A d \in fetched[c] : d \in RangeOf(c) /\ d \notin sawPresent[c]
            /\ (Returned(c) /\ ~deleted) =>
                   \A d \in RangeOf(c) \cap published : Exists(d)

OnlyUnpublishedFailed(c) ==
    /\ \E d \in Dates : task[c][d] = "HTTPError404"
    /\ \A d \in Dates : task[c][d] \in Exceptions => task[c][d] = "HTTPError404"

\* C6 (as claimed): when the only fetch failures of a ranged download are
\* "not published" answers, the call returns normally.
C6_NotAvailableTolerated ==
    \A c \in Callers :
        (op[c] \in RangeOps /\ pc[c] = "done" /\ OnlyUnpublishedFailed(c))
            => out[c] = "returned"

\* C7 (as claimed): download_scores returns normally only if no fetch failed
\* with anything but "not published".
C7_OnlyNotAvailableAbsorbed ==
    \A c \in Callers :
        (/\ op[c] = "download_scores" /\ pc[c] = "done"
         /\ \E d \in Dates : task[c][d] \in Exceptions \ {"HTTPError404"})
            => out[c] # "returned"

\* C8: when a ranged download has returned or raised, none of the tasks it
\* submitted is pending or running.
C8_PoolDrainedOnExit ==
    \A c \in Callers :
        (op[c] \in PoolOps /\ pc[c] = "done") =>
            \A d \in Dates : TaskIdle(task[c][d])

\* C8 (reached): a call that raised one task's error although another of its
\* tasks, never collected, also ran to its end
C8_Witness ==
    \E c \in Callers :
        /\ op[c] \in PoolOps /\ Raised(c)
        /\ \E d \in Dates : d \notin collected[c] /\ task[c][d] = "ok"
                            /\ d \in fetched[c]

NoClear == \A c \in Callers : op[c] # "clear"

\* C9 (as claimed): a changelog built over a range of two or more dates, one
\* of them never published, returns normally (no clear running beside it).
C9_ChangelogToleratesNotAvailable ==
    \A c \in Callers :
        (/\ op[c] = "iter_score_diff_dataframes" /\ pc[c] = "done"
         /\ Cardinality(RangeOf(c)) >= 2
         /\ \E d \in RangeOf(c) : d \notin published
         /\ NoClear)
            => out[c] = "returned"

\* ---- C10: which entities a diff has a record for
HasRow(df, e) == \E i \in 1..Len(df) : df[i].cve = e
EpssIn(df, e) == (CHOOSE r \in {df[i] : i \in 1..Len(df)} : r.cve = e).epss
InBoth(e) == HasRow(dfA, e) /\ HasRow(dfB, e)
Differ(e) == InBoth(e) /\ EpssIn(dfA, e) # EpssIn(dfB, e)
\* the two values are at least half a unit of the fifth decimal apart
DifferVisibly(e) ==
    InBoth(e) /\ 2 * Abs(EpssIn(dfB, e) - EpssIn(dfA, e)) >= Ulp

RowOf(df, e) == CHOOSE r \in {df[i] : i \in 1..Len(df)} : r.cve = e
DateOf(df) == df[1].date
\* get_diff has run on an older table `a` and a newer table `b`
OlderNewer ==
    /\ diff.error = "none"
    /\ dfA # <<>> /\ dfB # <<>>
    /\ DateOf(dfA) < DateOf(dfB)

\* C11 (as claimed): every record of diff(older, newer) carries E's newer and
\* older value and percentile as they stand in the two snapshots, the two
\* dates, and delta = new - old.
C11_AsClaimed ==
    OlderNewer =>
        \A i \in 1..Len(diff.rows) :
            LET r == diff.rows[i]
                old == RowOf(dfA, r.cve)
                new == RowOf(dfB, r.cve)
            IN  /\ r.date = new.date /\ r.old_date = Num(old.date)
                /\ r.epss = Num(new.epss) /\ r.old_epss = Num(old.epss)
                /\ r.percentile = Num(new.percentile)
                /\ r.old_percentile = Num(old.percentile)
                /\ r.epss_change = Num(new.epss - old.epss)
                /\ r.percentile_change = Num(new.percentile - old.percentile)

\* C11 (amended): every record of diff(older, newer) carries the two dates,
\* E's newer and older value and percentile rounded to 5 decimals, delta =
\* new - old of the unrounded values, rounded to 5 decimals, and, for an old
\* value that is not 0, delta / old * 100 of the unrounded values rounded to
\* 5 decimals; 0.10 -> 0.12 gives 20.0 %, percentile 0.50 -> 0.55 gives 10.0 %.
C11_RecordFields ==
    OlderNewer =>
        \A i \in 1..Len(diff.rows) :
            LET r == diff.rows[i]
                old == RowOf(dfA, r.cve)
                new == RowOf(dfB, r.cve)
                RoundedTo5(x) == x % Ulp = 0
                Nearest(x, y) == RoundedTo5(x) /\ 2 * Abs(x - y) <= Ulp
            IN  /\ HasRow(dfA, r.cve) /\ HasRow(dfB, r.cve)
                /\ r.date = new.date /\ r.old_date = Num(old.date)
                /\ Nearest(r.epss.v, new.epss)
                /\ Nearest(r.old_epss.v, old.epss)
                /\ Nearest(r.percentile.v, new.percentile)
                /\ Nearest(r.old_percentile.v, old.percentile)
                /\ Nearest(r.epss_change.v, new.epss - old.epss)
                /\ Nearest(r.percentile_change.v,
                           new.percentile - old.percentile)
                /\ old.epss # 0 =>
                       r.epss_change_pct =
                           PctChange(Num(new.epss - old.epss), Num(old.epss))
                /\ old.percentile # 0 =>
                       r.percentile_change_pct =
                           PctChange(Num(new.percentile - old.percentile),
                                     Num(old.percentile))
                /\ (old.epss = 100000 /\ new.epss = 120000) =>
                       (/\ r.epss_change = Num(20000)
                        /\ r.epss_change_pct = Num(2000000)
                        /\ r.percentile_change = Num(50000)
                        /\ r.percentile_change_pct = Num(1000000))

\* C11 (reached): diff(older, newer) has the record of 0.10 -> 0.12 with
\* percentile 0.50 -> 0.55
C11_Witness ==
    /\ OlderNewer
    /\ \E i \in 1..Len(diff.rows) :
           /\ diff.rows[i].old_epss = Num(100000)
           /\ diff.rows[i].epss = Num(120000)
           /\ diff.rows[i].old_percentile = Num(500000)
           /\ diff.rows[i].percentile = Num(550000)
           /\ RowOf(dfA, diff.rows[i].cve).epss = 100000

\* ---- C12: a snapshot compared with itself
RowSet(df) == {df[i] : i \in 1..Len(df)}
SelfDiff == diff.error # "pending" /\ RowSet(dfA) = RowSet(dfB)

\* C12 (as claimed): for any snapshot S, whatever rows it has, diff(S, S)
\* returns an empty table.
C12_SelfDiffEmpty ==
    SelfDiff => diff = [error |-> "none", rows |-> <<>>]

\* ---- C13: the two argument orders
\* record r2 is record r read backwards: same CVE, old and new values
\* exchanged, deltas of the opposite sign
Mirrors(r, r2) ==
    /\ r2.cve = r.cve
    /\ r2.old_epss = r.epss /\ r2.epss = r.old_epss
    /\ r2.old_percentile = r.percentile /\ r2.percentile = r.old_percentile
    /\ r2.epss_change.v = 0 - r.epss_change.v
    /\ r2.percentile_change.v = 0 - r.percentile_change.v

MirroredIn(rows, rows2) ==
    \A i \in 1..Len(rows) : \E j \in 1..Len(rows2) : Mirrors(rows[i], rows2[j])

\* C13 (as claimed): when get_diff(a, b) and get_diff(b, a) both return, each
\* record of the one is, read backwards, a record of the other.
C13_Antisymmetry ==
    LET back == get_diff(dfB, dfA)
    IN  (diff.error = "none" /\ back.error = "none") =>
            /\ MirroredIn(diff.rows, back.rows)
            /\ MirroredIn(back.rows, diff.rows)

\* ---- C14: an old value of 0
\* the row a record's old values were taken from
OldRow(r) ==
    IF dfA # <<>> /\ DateOf(dfA) = r.old_date.v /\ HasRow(dfA, r.cve)
    THEN RowOf(dfA, r.cve)
    ELSE RowOf(dfB, r.cve)

Undefined(x) == x.kind \in {"null", "NaN"}

\* C14 (as claimed): a record whose old value (or old percentile) is exactly
\* 0 and whose new one differs carries an undefined percentage delta, not an
\* infinite or a computed number.
C14_UndefinedPct ==
    diff.error = "none" =>
        \A i \in 1..Len(diff.rows) :
            LET r == diff.rows[i]
            IN  /\ OldRow(r).epss = 0 => Undefined(r.epss_change_pct)
                /\ (OldRow(r).percentile = 0 /\ r.percentile_change.v # 0)
                       => Undefined(r.percentile_change_pct)

\* ---- C15: rounding and the decision to emit
\* C15 (as claimed): diff has a record for an entity of both snapshots
\* exactly when its two values, each rounded to 5 decimals, are unequal.
C15_RoundedValuesDecide ==
    diff.error = "none" =>
        \A e \in Cves :
            HasRow(diff.rows, e) <=>
                (InBoth(e) /\ Round(EpssIn(dfA, e)) # Round(EpssIn(dfB, e)))

\* ---- C16: the order of the records
\* C16: the records of get_diff come in ascending order of (date, cve),
\* whatever the order of the rows in the two tables.
C16_RecordsSorted ==
    diff.error = "none" =>
        \A i, j \in 1..Len(diff.rows) :
            i < j =>
                \/ diff.rows[i].date < diff.rows[j].date
                \/ /\ diff.rows[i].date = diff.rows[j].date
                   /\ diff.rows[i].cve < diff.rows[j].cve

\* C16 (reached): both tables list their CVEs in descending order and the
\* diff has two records
C16_Witness ==
    /\ diff.error = "none" /\ Len(diff.rows) >= 2
    /\ Len(dfA) >= 2 /\ dfA[1].cve > dfA[2].cve
    /\ Len(dfB) >= 2 /\ dfB[1].cve > dfB[2].cve


\* the call at work has ended
HistDone(name) == hpc = "done" /\ call.name = name

\* get_diff of the published snapshots of days a and b
DiffOfDays(a, b) == get_diff(WorldTable(a), WorldTable(b)).rows

\* C17 (as claimed): for three dates d1 < d2 < d3 forming the range, any
\* snapshots and any prior state of the changelog cache, the changelog over
\* [d1, d3] built with order preserved is diff(d1, d2) followed by
\* diff(d2, d3), sorted by (date, cve).  (Checked with every snapshot of the
\* range in the cache.)
C17_Chaining ==
    (/\ HistDone("get_historical_diff_dataframe")
     /\ call.po
     /\ call.query = {}
     /\ call.hi = call.lo + 2
     /\ hsnap = Days)
    => hout = [error |-> "none",
               rows |-> SortByDateAndCve(
                            DiffOfDays(call.lo, call.lo + 1)
                            \o DiffOfDays(call.lo + 1, call.lo + 2))]

\* C20 (as claimed): in every reachable state the changelog file of a date D
\* holds exactly the unfiltered diff between the snapshot of the previous
\* date and the snapshot of D, whichever first date and query the call that
\* created it was given.
C20_ChangelogFileIsAdjacentDiff ==
    \A d \in Days \ {MIN_DATE} :
        hclog[d].present => hclog[d].rows = DiffOfDays(d - 1, d)

\* a changelog is being built, or was, with preserve_order=True
PreservingOrder ==
    /\ call.name \in {"iter_score_diff_dataframes",
                      "get_historical_diff_dataframe"}
    /\ call.po

SortedByDate(df) ==
    \A i, j \in 1..Len(df) : i < j => df[i].date <= df[j].date

\* C18 (as claimed): with preserve_order=True the pairs are processed one at
\* a time in chronological order: no two pair tasks are ever in flight
\* together, work on a pair begins only once every earlier pair was emitted,
\* and the output is sorted by date.
C18_OneAtATime ==
    PreservingOrder =>
        /\ Cardinality(InFlight) <= 1
        /\ \A d \in CallPairs : ptask[d] # "none" =>
               \A e \in CallPairs : e < d => ptask[e] = "taken"
        /\ SortedByDate(hout.rows)

\* What get_score_diff_dataframe(d - 1, d, query) gives on the changelog cache
\* the call started from, run on its own.
PairOutcome(d) ==
    IF clog0[d].present
    THEN [error |-> "none",
          rows |-> filter_dataframe(clog0[d].rows, call.query)]
    ELSE IF d - 1 \notin hsnap \/ d \notin hsnap
    THEN [error |-> "TypeError", rows |-> <<>>]
    ELSE get_diff(filter_dataframe(WorldTable(d - 1), call.query),
                  filter_dataframe(WorldTable(d), call.query))

\* What the pairs from (d - 1, d) on give when taken one after the other, as
\* the preserve_order=True loop of iter_score_diff_dataframes takes them.
RECURSIVE OneAfterTheOther(_)
OneAfterTheOther(d) ==
    IF d > call.hi THEN [error |-> "none", rows |-> <<>>]
    ELSE LET this == PairOutcome(d)
             rest == OneAfterTheOther(d + 1)
         IN  IF this.error # "none" THEN [error |-> this.error, rows |-> <<>>]
             ELSE [error |-> rest.error, rows |-> this.rows \o rest.rows]

Occurrences(r, df) == Cardinality({i \in 1..Len(df) : df[i] = r})

SameRecords(df1, df2) ==
    /\ Len(df1) = Len(df2)
    /\ \A i \in 1..Len(df1) : Occurrences(df1[i], df1) = Occurrences(df1[i], df2)

\* the changelog the same call builds with preserve_order=True
InOrder ==
    IF call.name = "get_historical_diff_dataframe" /\ CallPairs = {}
    THEN [error |-> "ValueError", rows |-> <<>>]
    ELSE OneAfterTheOther(call.lo + 1)

\* C19: a changelog build that has ended, whatever its preserve_order and
\* however its pair tasks interleaved, raised exactly if the same build with
\* preserve_order=True on the same range, query and starting cache raises,
\* and otherwise holds the same records as that one, each as many times.
C19_SameRecordsInBothModes ==
    (hpc = "done" /\ call.name \in {"iter_score_diff_dataframes",
                                     "get_historical_diff_dataframe"})
    => /\ (hout.error = "none") <=> (InOrder.error = "none")
       /\ hout.error = "none" => SameRecords(hout.rows, InOrder.rows)

\* C19 (reached): a build with preserve_order=False has ended whose records
\* are those of the ordered build in another order, one pair read from the
\* cache under a query and one computed
C19_Witness ==
    /\ hpc = "done"
    /\ call.name = "iter_score_diff_dataframes"
    /\ ~call.po
    /\ call.query # {}
    /\ hout.error = "none"
    /\ hout.rows # InOrder.rows
    /\ SameRecords(hout.rows, InOrder.rows)
    /\ \E d, e \in CallPairs : clog0[d].present /\ ~clog0[e].present

\* row r satisfies every bound of q that is not None, bounds included
MeetsBounds(r, q) ==
    /\ q.min_score.kind = "num" => r.epss >= q.min_score.v
    /\ q.max_score.kind = "num" => r.epss <= q.max_score.v
    /\ q.min_percentile.kind = "num" => r.percentile >= q.min_percentile.v
    /\ q.max_percentile.kind = "num" => r.percentile <= q.max_percentile.v

RowsMeetingBounds == SelectSeq(qdf, LAMBDA r : MeetsBounds(r, query))

\* C21 (as claimed): under a query that lists no CVE id, each of the two
\* filters returns exactly the rows that satisfy every bound that is set, a
\* bound of 0 included, with inclusive bounds.
C21_EverySetBoundApplies ==
    (query.given /\ query.cve_ids = {}) =>
        /\ filtered # Pending => filtered.rows = RowsMeetingBounds
        /\ scores # Pending => scores.rows = RowsMeetingBounds

\* C22 (as claimed): each of the two filters keeps a row exactly if its CVE
\* id is a member of the query's id set (the query setting no bound).
C22_ExactIdMatch ==
    (/\ query.given
     /\ query.cve_ids # {}
     /\ \A b \in {query.min_score, query.max_score, query.min_percentile,
                  query.max_percentile} : b = Null) =>
        /\ filtered # Pending =>
              filtered.rows = SelectSeq(qdf, LAMBDA r : r.cve \in query.cve_ids)
        /\ scores # Pending =>
              scores.rows = SelectSeq(qdf, LAMBDA r : r.cve \in query.cve_ids)

\* the query sets no predicate, or the caller passed no Query
NoPredicate == query \in {NoQuery, [NoQuery EXCEPT !.given = TRUE]}

\* C23: filter_dataframe_with_query under a Query with no predicate set, or
\* under no Query at all, returns the rows of its input, in their order and
\* with their values.
C23_EmptyQueryIsIdentity ==
    (NoPredicate /\ filtered # Pending) =>
        filtered = [error |-> "none", rows |-> qdf]

\* C23 (reached): a table of two different rows, one of them with a score of
\* 0, went through the filter under a Query with nothing set
C23_Witness ==
    /\ query = [NoQuery EXCEPT !.given = TRUE]
    /\ filtered # Pending
    /\ Len(qdf) >= 2
    /\ qdf[1] # qdf[2]
    /\ \E i \in 1..Len(qdf) : qdf[i].epss = 0
    /\ \E i \in 1..Len(qdf) : qdf[i].epss # 0

\* C24 (as claimed): with overwrite=False, however the output directory is
\* named, every partition file that was there when the call started is there
\* unchanged at every moment of the call and after it.
C24_ExistingPartitionsUntouched ==
    ~wargs.overwrite =>
        \A k \in PartitionKeys :
            wdir0.files[k].present => wdir.files[k] = wdir0.files[k]

\* C25 (as claimed): partitioning a table of zero rows writes no file,
\* changes nothing on disk and raises no error, for either value of
\* overwrite, the output directory being there or not.
C25_ZeroRowsIsNoOp ==
    (wpc = "done" /\ wargs.df = <<>>) => (werr = "none" /\ wdir = wdir0)

\* the boundary of [earliest, latest] nearest to day d (d itself if inside)
NearestAllowed(d) ==
    IF d < MIN_DATE THEN MIN_DATE ELSE IF d > MaxDate THEN MaxDate ELSE d

\* C26 (as claimed): get_date_range returns, without raising, bounds inside
\* [earliest, latest]: a supplied bound outside the interval on either side
\* is replaced by the nearer boundary, a bound inside it is kept, an omitted
\* one is earliest / latest; and the changelog builder works on that range.
C26_BoundsClamped ==
    LET lo == IF rbounds.min_date # 0
              THEN NearestAllowed(rbounds.min_date) ELSE MIN_DATE
        hi == IF rbounds.max_date # 0
              THEN NearestAllowed(rbounds.max_date) ELSE MaxDate
    IN  /\ rrange.error # "pending" =>
              rrange = [error |-> "none", lo |-> lo, hi |-> hi]
        /\ rhist.error # "pending" =>
              rhist = [error |-> "none", lo |-> lo, hi |-> hi]

\* the caller supplied a minimum after the maximum
Inverted ==
    /\ rbounds.min_date # 0
    /\ rbounds.max_date # 0
    /\ rbounds.min_date > rbounds.max_date

\* C27 (as claimed): a range whose minimum is after its maximum makes the
\* resolver raise; it never returns an inverted pair, and no inverted range
\* is turned into an empty sequence of dates.
C27_InvertedRangeRejected ==
    /\ (Inverted /\ rrange.error # "pending") => rrange.error # "none"
    /\ rrange.error = "none" => rrange.lo <= rrange.hi
    /\ (Inverted /\ rdates.error # "pending") => rdates.error # "none"

\* the ChangeRecords of CVE e in the changelog the call at work collected
RecordsOf(e) ==
    {r \in UNION {{pres[d][i] : i \in 1..Len(pres[d])} : d \in CallPairs} :
        r.cve = e}

\* a score-range call has ended whose changelog was built without an error
RangeBuilt ==
    /\ hpc = "done"
    /\ call.name \in ScoreRangeOps
    /\ CallPairs # {}
    /\ \A d \in CallPairs : ptask[d] = "taken"
    /\ hout.error \notin PairErrors

OldAndNewScores(e) ==
    {r.epss.v : r \in RecordsOf(e)} \cup {r.old_epss.v : r \in RecordsOf(e)}

OldAndNewPercentiles(e) ==
    {r.percentile.v : r \in RecordsOf(e)}
        \cup {r.old_percentile.v : r \in RecordsOf(e)}

\* C28 (as claimed): the score range of a CVE with ChangeRecords in the range
\* is returned, and it is the minimum and the maximum over the old and the
\* new values of all those records, for scores and for percentiles.
C28_RangeOverOldAndNew ==
    RangeBuilt =>
        \A e \in Cves : RecordsOf(e) # {} =>
            /\ hout.error = "none"
            /\ \E i \in 1..Len(hout.rows) :
                  /\ hout.rows[i].min_epss = Num(MinOf(OldAndNewScores(e)))
                  /\ hout.rows[i].max_epss = Num(MaxOf(OldAndNewScores(e)))
                  /\ call.name = "get_score_range_dataframe" =>
                        /\ hout.rows[i].cve = e
                        /\ hout.rows[i].min_percentile
                              = Num(MinOf(OldAndNewPercentiles(e)))
                        /\ hout.rows[i].max_percentile
                              = Num(MaxOf(OldAndNewPercentiles(e)))

\* C29 (as claimed): a score-range request for a CVE that has no ChangeRecord
\* in the range, its score never having changed or the CVE being in no
\* snapshot, ends with the error 'No EPSS scores found' and nothing else.
\* (Checked for ranges of two dates or more with every snapshot in the cache.)
C29_NotFoundWhenNoRecords ==
    (/\ hpc = "done"
     /\ call.name = "get_score_range_tuple_by_cve_id"
     /\ call.lo < call.hi
     /\ hsnap = Days
     /\ \A e \in call.query : RecordsOf(e) = {})
    => hout.error = "ValueError: No EPSS scores found"

\* C30 (as claimed): a file whose table has no date column is read, by either
\* read_dataframe, into rows that all carry the date embedded in the file
\* name, which for a cache path is the date the path was made from; and if
\* the name embeds no date the read raises.
C30_DateFromFileName ==
    "date" \notin fpath.columns =>
        \A df \in {fdf, fdf2} : df # Pending =>
            IF fpath.date = 0 THEN df.error # "none"
            ELSE /\ df.error = "none"
                 /\ Len(df.rows) = Len(fpath.rows)
                 /\ \A i \in 1..Len(df.rows) : df.rows[i].date = Num(fpath.date)

\* the release date of model version v, and the last date it was the
\* published model
ReleaseDay(v) ==
    parse_date(<<V1_RELEASE_DATE, V2_RELEASE_DATE, V3_RELEASE_DATE>>[v])

LastDay(v) == IF v = 3 THEN vlatest ELSE ReleaseDay(v + 1) - 1

\* the versions the flags f include; none set means v3
Included(f) ==
    IF \E v \in 1..3 : f[v] THEN {v \in 1..3 : f[v]} ELSE {3}

\* C31: get_min_date is the release date of the oldest included version and
\* get_max_date the last publication date of the newest included one, so
\* min_date <= max_date, and including an older version as well never moves
\* the earliest date forward.
C31_BoundsOfIncludedVersions ==
    /\ vmin # <<>> /\ vmin # Pending =>
          /\ vmin.date = ReleaseDay(MinOf(Included(vflags)))
          /\ \A f \in BOOLEAN \X BOOLEAN \X BOOLEAN :
                (\A v \in 1..3 : vflags[v] => f[v])
                /\ MinOf(Included(f)) <= MinOf(Included(vflags))
                => get_min_date(f[1], f[2], f[3]) <= vmin.date
    /\ vmax # <<>> /\ vmax # Pending /\ vmax.error = "none" =>
          /\ vmax.date = LastDay(MaxOf(Included(vflags)))
          /\ vmin # Pending => vmin.date <= vmax.date

C31_Witness ==
    /\ vflags = <<TRUE, TRUE, FALSE>>
    /\ vmin # Pending
    /\ vmax # Pending
    /\ vmax.error = "none"
    /\ vmin.date < vmax.date

\* C32 (as claimed): get_scores returns its rows sorted by date and CVE in
\* descending order, get_scores_by_date its rows sorted by CVE in descending
\* order.
C32_SortedDescending ==
    /\ sout # <<>> /\ sout # Pending /\ sout.error = "none" =>
          \A i, j \in 1..Len(sout.rows) : i < j =>
              \/ sout.rows[i].date > sout.rows[j].date
              \/ /\ sout.rows[i].date = sout.rows[j].date
                 /\ sout.rows[i].cve >= sout.rows[j].cve
    /\ sday # <<>> /\ sday # Pending =>
          \A i, j \in 1..Len(sday.rows) : i < j =>
              sday.rows[i].cve >= sday.rows[j].cve

\* the row of entity e in the snapshot file of day d
SnapshotRow(d, e) == CHOOSE r \in {sfiles[d][i] : i \in 1..Len(sfiles[d])} :
    r.cve = e

\* the rows get_scores is to keep over lo..hi when unchanged scores are
\* dropped: all of the first day, and of every later day the rows whose
\* score differs from the day before
ChangedSinceDayBefore(lo, hi) ==
    {SnapshotRow(lo, e) : e \in Cves}
    \cup {SnapshotRow(p[1], p[2]) : p \in
             {q \in ((lo + 1)..hi) \X Cves :
                 SnapshotRow(q[1], q[2]).epss
                     # SnapshotRow(q[1] - 1, q[2]).epss}}

\* C35 (as claimed): get_scores over d1 < ... < dn with
\* drop_unchanged_scores=True returns every row of d1 and, for each later
\* date and entity, that date's row exactly when the score differs from the
\* date before, the change from d1 to d2 included.
C35_ChangedRowsOfEveryLaterDate ==
    /\ sout # <<>> /\ sout # Pending
    /\ sargs.drop_unchanged_scores
    /\ sargs.lo < sargs.hi
    => /\ sout.error = "none"
       /\ {sout.rows[i] : i \in 1..Len(sout.rows)}
              = ChangedSinceDayBefore(sargs.lo, sargs.hi)
       /\ Len(sout.rows) = Cardinality(ChangedSinceDayBefore(sargs.lo, sargs.hi))

\* C33 (as claimed): the snapshot file a fetch of date d persists has the
\* date d on every row.
C33_DateIsPersisted ==
    dfile # <<>> /\ dfile.present =>
        /\ "date" \in dfile.columns
        /\ \A i \in 1..Len(dfile.rows) : dfile.rows[i].date = Num(dargs.date)

\* the rows of df a query on the CVE ids q lets through
RowsOfIds(df, q) == SelectSeq(df, LAMBDA r : q = {} \/ r.cve \in q)

\* C34: get_score_diff_dataframe(first, second, query).  If the changelog
\* file of `second` exists the call cannot fail, returns that file's rows
\* let through by the query, and leaves the cache as it was, whatever
\* snapshots are cached; otherwise a call that succeeds returns the diff of
\* the two snapshots and has written it at the changelog path of `second`.
\* After a successful call that file exists.
C34_ChangelogFileFirst ==
    HistDone("get_score_diff_dataframe") =>
        IF clog0[call.hi].present
        THEN /\ hout = [error |-> "none",
                        rows |-> RowsOfIds(clog0[call.hi].rows, call.query)]
             /\ hclog = clog0
        ELSE hout.error = "none" =>
             /\ hout.rows = get_diff(RowsOfIds(WorldTable(call.lo), call.query),
                                     RowsOfIds(WorldTable(call.hi), call.query)).rows
             /\ hclog = [clog0 EXCEPT ![call.hi] =
                            [present |-> TRUE, rows |-> hout.rows]]

\* a call served from the changelog file alone: the first snapshot is not in
\* the cache, and the query drops a row of the file
C34_Witness ==
    /\ HistDone("get_score_diff_dataframe")
    /\ clog0[call.hi].present
    /\ call.lo \notin hsnap
    /\ hout.error = "none"
    /\ hout.rows # <<>>
    /\ Len(hout.rows) < Len(clog0[call.hi].rows)

\* the rows of the table that carry the value k under the partitioning key
RowsWithValue(k) ==
    SelectSeq(wargs.df, LAMBDA r :
        (IF wargs.partitioning_key = "cve" THEN r.cve ELSE r.date) = k)

\* C36 (as claimed): partitioning by cve or by date ends without error with
\* one file per distinct value of the key, named after the value; a file the
\* call had to write (overwrite set, or no file of that name before) holds
\* exactly the rows with that value, in their order, and no other file is
\* touched, so every row is in exactly one partition.  Any other key ends in
\* an error with nothing written.
C36_OneFilePerKeyValue ==
    wpc = "done" =>
        IF wargs.partitioning_key \in {"cve", "date"}
        THEN /\ werr = "none"
             /\ \A k \in PartitionKeys :
                   IF RowsWithValue(k) = <<>>
                   THEN wdir.files[k] = wdir0.files[k]
                   ELSE /\ wdir.files[k].present
                        /\ (wargs.overwrite \/ ~wdir0.files[k].present)
                           => wdir.files[k].rows = RowsWithValue(k)
        ELSE werr # "none" /\ wdir = wdir0

\* a changelog the caller got back whole
ChangelogBuilt ==
    /\ hpc = "done"
    /\ call.name \in {"get_historical_diff_dataframe",
                      "iter_score_diff_dataframes"}
    /\ hout.error = "none"

\* C37 (as claimed): a changelog built over a date range, in either ordering
\* mode and from any state of the cache, has at most one record per entity
\* and date, and no record dated on the first date of the range.
C37_NoDuplicateNoFirstDate ==
    ChangelogBuilt =>
        /\ \A i, j \in 1..Len(hout.rows) :
               (/\ hout.rows[i].cve = hout.rows[j].cve
                /\ hout.rows[i].date = hout.rows[j].date) => i = j
        /\ \A i \in 1..Len(hout.rows) : hout.rows[i].date # call.lo

\* C38 (as claimed): get_diff of two snapshots of which the older, the newer
\* or both have no rows returns an empty result and does not fail.
C38_DiffOfEmptySnapshots ==
    (diff # <<>> /\ diff # Pending /\ (dfA = <<>> \/ dfB = <<>>))
    => diff = [error |-> "none", rows |-> <<>>]

\* a download task of date d learns that its fetch failed
FetchFails(d) ==
    \E c \in Callers : task[c][d] = "fetch" /\ task'[c][d] \in SourceFailures

\* the snapshot file of date d comes into being
FileCreated(d) == snap[d] = "absent" /\ snap'[d] # "absent"

\* C39: a fetch that fails leaves every snapshot file as it was; a snapshot
\* file comes into being only in a task whose fetch of that date has
\* succeeded, so a file exists only for a date the source has answered with
\* its table; and a request that finds no file for the date fetches.
C39_FailedFetchLeavesNoFile ==
    /\ [](\A d \in Dates : snap[d] # "absent" => d \in published)
    /\ [][\A d \in Dates :
             /\ FetchFails(d) => snap' = snap
             /\ FileCreated(d) => \E c \in Callers : task[c][d] = "write"
             /\ \A c \in Callers :
                   (/\ op[c] = "get_scores_by_date"
                    /\ task[c][d] = "pending" /\ task'[c][d] # "pending"
                    /\ snap[d] = "absent") => task'[c][d] = "fetch"]_vars

\* the fetch of one caller has failed, no file was left behind, and a second
\* request for the same date is fetching it again
C39_Witness ==
    \E c1, c2 \in Callers, d \in Dates :
        /\ c1 # c2
        /\ pc[c1] = "done"
        /\ task[c1][d] \in SourceFailures
        /\ snap[d] = "absent"
        /\ op[c2] = "get_scores_by_date"
        /\ task[c2][d] = "fetch"

\* C40: clear() without delete_downloads leaves no changelogs-by-date and no
\* changelogs-by-cve partition and every snapshot as it was; with
\* delete_downloads the snapshots are gone too; nothing outside the working
\* directory changes; and a clear that finds no cache, or nothing left to
\* remove, changes nothing.
C40_ClearRemovesWhatItShould ==
    cpc > 0 =>
        /\ cdisk.dirs[CHANGELOGS_BY_DATE].files = {}
        /\ cdisk.dirs[CHANGELOGS_BY_CVE].files = {}
        /\ IF cargs.delete_downloads
           THEN cdisk.dirs[RAW_SCORES_BY_DATE].files = {}
           ELSE cdisk.dirs[RAW_SCORES_BY_DATE] = cdisk0.dirs[RAW_SCORES_BY_DATE]
        /\ cdisk.outside = cdisk0.outside
        /\ cdisk.workdir = cdisk0.workdir
        /\ (\A n \in CacheDirs :
               (n = RAW_SCORES_BY_DATE /\ ~cargs.delete_downloads)
               \/ ~cdisk0.dirs[n].exists) => cdisk = cdisk0

\* a clear without delete_downloads has removed changelogs of both kinds
\* and left snapshots behind
C40_Witness ==
    /\ cpc = 1
    /\ ~cargs.delete_downloads
    /\ cdisk0.dirs[CHANGELOGS_BY_DATE].files # {}
    /\ cdisk0.dirs[CHANGELOGS_BY_CVE].files # {}
    /\ cdisk.dirs[RAW_SCORES_BY_DATE].files # {}
====
